---- MODULE Spec2Model ----
(***************************************************************************)
(* Model of the browser lifecycle and concurrency-control core of the      *)
(* scraping service:                                                       *)
(*   - BrowserPool   (src/unnamed/part_006, second half)                   *)
(*   - RequestQueue  (src/src/core/RequestQueue.ts)                        *)
(*   - BaseScraper   (src/unnamed/part_006, first half): init / close /    *)
(*                   forceClose / execute / executeWithInit                *)
(*   - the HTTP surface (src/src/routes/scraper.routes.ts) and            *)
(*                   ScraperManager.execute (src/src/core/RequestQueue.ts) *)
(* The components do not share state in the source, so each has its own    *)
(* specification (SpecPool, SpecQueue, SpecExec, SpecHttp) over its own    *)
(* variables; the variables of the other components stay unchanged.        *)
(* JavaScript runs each handler to its first await without interleaving,   *)
(* so one action is one such synchronous run.                              *)
(***************************************************************************)
EXTENDS Integers, Sequences, FiniteSets, TLC

VARIABLES
    \* ---- BrowserPool ----
    instances,          \* this.instances: Seq of [browser, inUse, lastUsed]
    callerPc,           \* per caller: "idle" | "launching" | "waiting" | "holding" |
                        \* "releasing" | "closingPages"; "absent" for a caller that
                        \* makes no call in the run
    held,               \* per caller: the handle acquire() returned, 0 if none
    waiters,            \* pending wait promises of acquire(): [caller, since, deadline, settled]
    nextBrowser,        \* number of browsers launched by createBrowser so far
    sweepDue,           \* next firing time of the cleanupInterval
    sweepJobs,          \* running cleanupIdleBrowsers calls: their remaining toRemove lists
    closedBrowsers,     \* browsers whose close() has completed
    poolNow,            \* Date.now() as seen by the pool
    pages,              \* per browser: the owners of its open pages in creation order
                        \* (0 owns the default page the browser is launched with)
    relJob,             \* per caller: its running release() call [browser, todo, at]
    destroyCo,          \* the destroy() call: [pc, k, attached, arr]
    \* ---- RequestQueue ----
    queue,              \* this.queue: Seq of work ids, oldest first
    processing,         \* this.processing
    requestTimestamps,  \* this.requestTimestamps
    recheckTimers,      \* due times of pending setTimeout(() => processQueue(), 1000)
    workState,          \* per work: "new" | "queued" | "running" | "settled" | "done" | "cleared"
    workKind,           \* per work: "async" (returns a promise) | "syncThrow" (throws when called)
    nextWork,           \* id of the next work to be enqueued
    startLog,           \* history: Seq of [w, t], one entry per item.execute() call
    qNow,               \* Date.now() as seen by the queue
    \* ---- BaseScraper ----
    cfgMaxRetries,      \* config.maxRetries as passed to the constructor
    epc,                \* execute(): "idle" | "racing" | "catchClose" | "sleeping" | "returned"
    attempt,            \* execute(): the loop variable
    result,             \* the ScraperResult returned: [success, retries, duration]
    nStarted,           \* history: number of attempts started
    nFailed,            \* history: number of attempts that ended in the catch block
    att,                \* per attempt: executeWithInit() coroutine [pc, outcome]
    browser,            \* this.browser: id of a launched browser, 0 if undefined
    page,               \* this.page: id of the browser owning the page, 0 if undefined
    isClosing,          \* this.isClosing
    cleanupTimeout,     \* this.cleanupTimeout: 1 + attempt whose init() armed it, 0 if unset
    timers,             \* pending setTimeout callbacks of the scraper: [kind, a, due]
    bState,             \* per browser: "none" | "live" | "closed" | "killed"
    pageOpen,           \* per browser: its page exists and !page.isClosed()
    closeCo,            \* the close() call that passed the isClosing guard:
                        \* [pc, caller, target, session, since]
    closeCalls,         \* history: per browser, the page.close() and browser.close() calls made
    sleepLog,           \* history: the backoff sleeps of execute(): Seq of [i, from, to]
    now,                \* Date.now() as seen by the scraper
    procUp,             \* FALSE once an uncaught exception has terminated the process
    \* ---- HTTP surface ----
    httpPc,             \* per request: "none" | "launching" | "scraping" | "responded"
    \* ---- the challenge flow of one scrape() call ----
    chal,               \* [scraper, strategy, pc, had, solved, reloaded, polls, token,
                        \*  submitted, outcome, error, now]
    \* ---- one waitAndSolve() call of a RecaptchaSolver ----
    solver,             \* [provider, apiKey, pc, attempt, start, now, tasks, polls,
                        \*  lastResp, outcome, error]
    \* ---- one detectRecaptcha() call ----
    det,                \* [iframeAt, globalAt, dom, throws, pc, t, result, layer]
    \* ---- one request to /api/scrape/:name ----
    route,              \* [variant, name, method, pc, since, now, status]
    \* ---- one scraper object's browser and its tabs ----
    tab,                \* [scraper, cls, extensionConfig, pc, open, page, round]
    \* ---- the request handler of a page ----
    net,                \* [type, url, verdict]
    \* ---- RecaptchaExtension on one page ----
    ext,                \* [pc, now, definedAt, op, calledAt, answeredAt, result, unavailable]
    \* ---- the last operation a running scrape() made on this.page ----
    pageOp              \* [a, page]

poolVars  == <<instances, callerPc, held, waiters, nextBrowser, sweepDue, sweepJobs,
               closedBrowsers, poolNow, pages, relJob, destroyCo>>
\* the part of the pool state that only release(), destroy() and the pages
\* opened by the callers change
lifeVars  == <<pages, relJob, destroyCo>>
queueVars == <<queue, processing, requestTimestamps, recheckTimers, workState, workKind,
               nextWork, startLog, qNow>>
execVars  == <<cfgMaxRetries, epc, attempt, result, nStarted, nFailed, att, browser, page,
               isClosing, cleanupTimeout, timers, bState, pageOpen, closeCo, closeCalls,
               sleepLog, now, procUp>>
httpVars  == <<httpPc>>
flowVars  == <<chal, solver, det, route, tab, net, ext, pageOp>>
vars == <<poolVars, queueVars, execVars, httpVars, flowVars>>

\* ------------------------------------------------------------------------
\* Generic helpers
\* ------------------------------------------------------------------------
RECURSIVE SeqFilterOut(_, _)
\* s without the elements whose browser field is b  (Array.prototype.filter)
SeqFilterOut(s, b) ==
    IF s = <<>> THEN <<>>
    ELSE IF Head(s).browser = b THEN SeqFilterOut(Tail(s), b)
         ELSE <<Head(s)>> \o SeqFilterOut(Tail(s), b)

RECURSIVE KeepNewer(_, _)
\* the timestamps of s that are > bound, in order  (Array.prototype.filter)
KeepNewer(s, bound) ==
    IF s = <<>> THEN <<>>
    ELSE IF Head(s) > bound THEN <<Head(s)>> \o KeepNewer(Tail(s), bound)
         ELSE KeepNewer(Tail(s), bound)

\* ========================================================================
\* BrowserPool
\* ========================================================================
\* constructor arguments (BROWSER_POOL_SIZE, BROWSER_MAX_IDLE_TIME)
maxInstances == 2
maxIdleTime == 30000
\* fixed timer values of the pool
PoolWaitTimeout == 30000
SweepInterval == 60000

\* bounds of the pool model
NumCallers == 3
MaxBrowsers == 4
PoolMaxNow == 60000
\* granularity of the pool clock: the shortest timer the model tracks
PoolStep == PoolWaitTimeout

Callers == 1..NumCallers

\* this.instances.find((instance) => !instance.inUse): index of the first idle
\* instance, 0 when there is none
FindAvailableAny(insts) == IF Len(insts) > 0 THEN 1 ELSE 0
FindAvailable(insts) ==
    IF \E i \in 1..Len(insts) : ~insts[i].inUse
    THEN CHOOSE i \in 1..Len(insts) :
            /\ ~insts[i].inUse
            /\ \A j \in 1..(i-1) : insts[j].inUse
    ELSE 0

\* this.instances.find((i) => i.browser === browser)
FindByBrowser(insts, b) ==
    IF \E i \in 1..Len(insts) : insts[i].browser = b
    THEN CHOOSE i \in 1..Len(insts) : insts[i].browser = b
    ELSE 0

\* available.inUse = true; available.lastUsed = Date.now()
MarkInUse(insts, i, t) == [insts EXCEPT ![i].inUse = TRUE, ![i].lastUsed = t]

\* the pool as constructed, with the first n callers taking part in the run
\* no release() call is running for a caller; destroy() has not been called
NoRelJob == [browser |-> 0, todo |-> <<>>, at |-> 0]
NoDestroy == [pc |-> "none", k |-> 0, attached |-> TRUE, arr |-> <<>>]

PoolInitWith(n) ==
    /\ instances = <<>>
    /\ callerPc = [c \in Callers |-> IF c <= n THEN "idle" ELSE "absent"]
    /\ held = [c \in Callers |-> 0]
    /\ waiters = {}
    /\ nextBrowser = 0
    /\ sweepDue = SweepInterval
    /\ sweepJobs = <<>>
    /\ closedBrowsers = {}
    /\ poolNow = 0
    /\ pages = [b \in 1..(MaxBrowsers + NumCallers) |-> <<0>>]
    /\ relJob = [c \in Callers |-> NoRelJob]
    /\ destroyCo = NoDestroy

PoolInit == PoolInitWith(NumCallers)

\* acquire(), idle path: an idle instance exists
AcquireIdle(c) ==
    /\ callerPc[c] = "idle"
    /\ FindAvailable(instances) # 0
    /\ LET i == FindAvailable(instances) IN
         /\ instances' = MarkInUse(instances, i, poolNow)
         /\ held' = [held EXCEPT ![c] = instances[i].browser]
    /\ callerPc' = [callerPc EXCEPT ![c] = "holding"]
    /\ UNCHANGED <<waiters, nextBrowser, sweepDue, sweepJobs, closedBrowsers, poolNow>>
    /\ UNCHANGED lifeVars

\* acquire(), launch path up to `await this.createBrowser()`
AcquireLaunch(c) ==
    /\ callerPc[c] = "idle"
    /\ FindAvailable(instances) = 0
    /\ Len(instances) < maxInstances
    /\ nextBrowser < MaxBrowsers
    /\ callerPc' = [callerPc EXCEPT ![c] = "launching"]
    /\ UNCHANGED <<instances, held, waiters, nextBrowser, sweepDue, sweepJobs,
                   closedBrowsers, poolNow>>
    /\ UNCHANGED lifeVars

\* acquire(), launch path after the await: push the new instance, return it
CreateBrowserDone(c) ==
    /\ callerPc[c] = "launching"
    /\ nextBrowser' = nextBrowser + 1
    /\ instances' = Append(instances,
                       [browser |-> nextBrowser + 1, inUse |-> TRUE, lastUsed |-> poolNow])
    /\ held' = [held EXCEPT ![c] = nextBrowser + 1]
    /\ callerPc' = [callerPc EXCEPT ![c] = "holding"]
    /\ UNCHANGED <<waiters, sweepDue, sweepJobs, closedBrowsers, poolNow>>
    /\ UNCHANGED lifeVars

\* createBrowser() rejects: acquire() rejects, nothing is retained
CreateBrowserFail(c) ==
    /\ callerPc[c] = "launching"
    /\ callerPc' = [callerPc EXCEPT ![c] = "idle"]
    /\ UNCHANGED <<instances, held, waiters, nextBrowser, sweepDue, sweepJobs,
                   closedBrowsers, poolNow>>
    /\ UNCHANGED lifeVars

\* `setTimeout(() => reject(...), 30000)` armed at time t: its due time
WaitDeadlineLate(t) == t + 2 * PoolWaitTimeout
WaitDeadline(t) == t + PoolWaitTimeout

\* acquire(), wait path: pool full and all busy; arms the 30 s timeout and
\* the 100 ms polling interval
AcquireWait(c) ==
    /\ callerPc[c] = "idle"
    /\ FindAvailable(instances) = 0
    /\ Len(instances) >= maxInstances
    /\ waiters' = waiters \cup
          {[caller |-> c, since |-> poolNow, deadline |-> WaitDeadline(poolNow),
            settled |-> FALSE]}
    /\ callerPc' = [callerPc EXCEPT ![c] = "waiting"]
    /\ UNCHANGED <<instances, held, nextBrowser, sweepDue, sweepJobs, closedBrowsers, poolNow>>
    /\ UNCHANGED lifeVars

\* one firing of a waiter's checkInterval that finds an idle instance (a
\* firing that finds none changes nothing).  The interval is cleared only
\* here, so it also fires for a waiter whose promise was already rejected.
WaiterPoll(w) ==
    /\ w \in waiters
    /\ FindAvailable(instances) # 0
    /\ LET i == FindAvailable(instances) IN
         /\ instances' = MarkInUse(instances, i, poolNow)
         /\ IF w.settled
            THEN UNCHANGED <<held, callerPc>>
            ELSE /\ held' = [held EXCEPT ![w.caller] = instances[i].browser]
                 /\ callerPc' = [callerPc EXCEPT ![w.caller] = "holding"]
    /\ waiters' = waiters \ {w}
    /\ UNCHANGED <<nextBrowser, sweepDue, sweepJobs, closedBrowsers, poolNow>>
    /\ UNCHANGED lifeVars

\* the 30 s timeout of a waiter fires: reject with 'Browser pool timeout -
\* all instances busy'; the interval keeps running
WaiterTimeout(w) ==
    /\ w \in waiters
    /\ ~w.settled
    /\ poolNow >= w.deadline
    /\ waiters' = (waiters \ {w}) \cup {[w EXCEPT !.settled = TRUE]}
    /\ callerPc' = [callerPc EXCEPT ![w.caller] = "idle"]
    /\ UNCHANGED <<instances, held, nextBrowser, sweepDue, sweepJobs, closedBrowsers, poolNow>>
    /\ UNCHANGED lifeVars

\* release(browser) by the caller that borrowed it, on a browser whose only
\* page is the default one (no caller opens pages): the loop over pages[1..]
\* has nothing to close, so nothing happens after the synchronous part
Release(c) ==
    /\ callerPc[c] = "holding"
    /\ LET i == FindByBrowser(instances, held[c]) IN
         instances' = IF i = 0 THEN instances
                      ELSE [instances EXCEPT ![i].inUse = FALSE, ![i].lastUsed = poolNow]
    /\ held' = [held EXCEPT ![c] = 0]
    /\ callerPc' = [callerPc EXCEPT ![c] = "idle"]
    /\ UNCHANGED <<waiters, nextBrowser, sweepDue, sweepJobs, closedBrowsers, poolNow>>
    /\ UNCHANGED lifeVars

\* the browsers cleanupIdleBrowsers() puts in toRemove, in pool order
RECURSIVE IdleTooLong(_, _)
IdleTooLong(insts, t) ==
    IF insts = <<>> THEN <<>>
    ELSE (IF ~Head(insts).inUse /\ t - Head(insts).lastUsed > maxIdleTime
          THEN <<Head(insts).browser>> ELSE <<>>) \o IdleTooLong(Tail(insts), t)

\* the cleanupInterval fires: cleanupIdleBrowsers() up to its first await
SweepTick ==
    /\ destroyCo.pc = "none"
    /\ poolNow >= sweepDue
    /\ sweepDue' = sweepDue + SweepInterval
    /\ LET toRemove == IdleTooLong(instances, poolNow) IN
         sweepJobs' = IF toRemove = <<>> THEN sweepJobs ELSE Append(sweepJobs, toRemove)
    /\ UNCHANGED <<instances, callerPc, held, waiters, nextBrowser, closedBrowsers, poolNow>>
    /\ UNCHANGED lifeVars

\* cleanupIdleBrowsers(): `await instance.browser.close()` of the next
\* toRemove entry settles; on success the instance is filtered out.  The
\* filter assigns a new array to this.instances: a destroy() that is iterating
\* the old array keeps iterating the old one.  A closed browser has no pages.
SweepClose(j, ok) ==
    /\ j \in 1..Len(sweepJobs)
    /\ LET b == Head(sweepJobs[j])
           rest == Tail(sweepJobs[j]) IN
         /\ instances' = IF ok THEN SeqFilterOut(instances, b) ELSE instances
         /\ closedBrowsers' = IF ok THEN closedBrowsers \cup {b} ELSE closedBrowsers
         /\ sweepJobs' = IF rest = <<>>
                         THEN SubSeq(sweepJobs, 1, j-1) \o SubSeq(sweepJobs, j+1, Len(sweepJobs))
                         ELSE [sweepJobs EXCEPT ![j] = rest]
         /\ destroyCo' = IF ok /\ destroyCo.pc = "closing" /\ destroyCo.attached
                         THEN [destroyCo EXCEPT !.attached = FALSE, !.arr = instances]
                         ELSE destroyCo
         /\ pages' = IF ok THEN [pages EXCEPT ![b] = <<>>] ELSE pages
    /\ UNCHANGED <<callerPc, held, waiters, nextBrowser, sweepDue, poolNow, relJob>>

\* time passes for the pool, once every timer that is due has fired (the
\* cleanupInterval unless destroy() has cleared it, the 30 s timeouts of the
\* waiters)
PoolTick ==
    /\ destroyCo.pc = "none" => poolNow < sweepDue
    /\ \A w \in waiters : ~w.settled => poolNow < w.deadline
    /\ poolNow + PoolStep <= PoolMaxNow
    /\ poolNow' = poolNow + PoolStep
    /\ UNCHANGED <<instances, callerPc, held, waiters, nextBrowser, sweepDue, sweepJobs,
                   closedBrowsers>>
    /\ UNCHANGED lifeVars

PoolNext ==
    /\ \/ \E c \in Callers : AcquireIdle(c)
       \/ \E c \in Callers : AcquireLaunch(c)
       \/ \E c \in Callers : CreateBrowserDone(c)
       \/ \E c \in Callers : CreateBrowserFail(c)
       \/ \E c \in Callers : AcquireWait(c)
       \/ \E w \in waiters : WaiterPoll(w)
       \/ \E w \in waiters : WaiterTimeout(w)
       \/ \E c \in Callers : Release(c)
       \/ SweepTick
       \/ \E j \in 1..Len(sweepJobs), ok \in BOOLEAN : SweepClose(j, ok)
       \/ PoolTick
    /\ UNCHANGED <<queueVars, execVars, httpVars, flowVars>>

\* ------------------------------------------------------------------------
\* BrowserPool with callers that open pages, and with destroy()
\* ------------------------------------------------------------------------
\* as many callers as the pool has sessions take part in a run of this part
\* of the model: each holds at most one session, so acquire() always finds an
\* idle session or room to launch and never reaches its waiting path
LifeCallers == maxInstances
\* bound: the browsers launched in a run of this part of the model
LifeBrowsers == 2

\* acquire(), launch path, while the run may still launch a browser
AcquireLaunchLife(c) ==
    /\ nextBrowser < LifeBrowsers
    /\ AcquireLaunch(c)

\* the array `browser.pages()` resolves with, without the page of owner o
RECURSIVE WithoutPage(_, _)
WithoutPage(ps, o) ==
    IF ps = <<>> THEN <<>>
    ELSE IF Head(ps) = o THEN Tail(ps)
         ELSE <<Head(ps)>> \o WithoutPage(Tail(ps), o)

HasPage(ps, o) == \E i \in 1..Len(ps) : ps[i] = o

\* the holder of a session opens a page on its browser (browser.newPage())
OpenPage(c) ==
    /\ callerPc[c] = "holding"
    /\ held[c] \notin closedBrowsers
    /\ ~HasPage(pages[held[c]], c)
    /\ pages' = [pages EXCEPT ![held[c]] = Append(@, c)]
    /\ UNCHANGED <<instances, callerPc, held, waiters, nextBrowser, sweepDue, sweepJobs,
                   closedBrowsers, poolNow, relJob, destroyCo>>

\* release(browser) up to `await browser.pages()`: the instance is marked
\* idle at once; for a browser the pool does not know, release() just returns
ReleaseCall(c) ==
    /\ callerPc[c] = "holding"
    /\ LET i == FindByBrowser(instances, held[c]) IN
         IF i = 0
         THEN /\ callerPc' = [callerPc EXCEPT ![c] = "idle"]
              /\ UNCHANGED <<instances, relJob>>
         ELSE /\ instances' = [instances EXCEPT ![i].inUse = FALSE, ![i].lastUsed = poolNow]
              /\ callerPc' = [callerPc EXCEPT ![c] = "releasing"]
              /\ relJob' = [relJob EXCEPT ![c] =
                               [browser |-> held[c], todo |-> <<>>, at |-> poolNow]]
    /\ held' = [held EXCEPT ![c] = 0]
    /\ UNCHANGED <<waiters, nextBrowser, sweepDue, sweepJobs, closedBrowsers, poolNow,
                   pages, destroyCo>>

\* release(): browser.pages() resolves with the pages open at that moment;
\* the loop starts at index 1 and awaits the first pages[i].close(), or ends
ReleasePages(c) ==
    /\ callerPc[c] = "releasing"
    /\ LET open == pages[relJob[c].browser]
           todo == IF open = <<>> THEN <<>> ELSE Tail(open) IN
         /\ relJob' = [relJob EXCEPT ![c] = IF todo = <<>> THEN NoRelJob
                                            ELSE [@ EXCEPT !.todo = todo]]
         /\ callerPc' = [callerPc EXCEPT ![c] = IF todo = <<>> THEN "idle" ELSE "closingPages"]
    /\ UNCHANGED <<instances, held, waiters, nextBrowser, sweepDue, sweepJobs,
                   closedBrowsers, poolNow, pages, destroyCo>>

\* release(): the awaited pages[i].close() settles (a rejection is caught
\* and logged, the page stays); the loop goes on or release() returns
ReleaseClosePage(c, ok) ==
    /\ callerPc[c] = "closingPages"
    /\ LET b == relJob[c].browser
           rest == Tail(relJob[c].todo) IN
         /\ pages' = IF ok THEN [pages EXCEPT ![b] = WithoutPage(@, Head(relJob[c].todo))]
                     ELSE pages
         /\ relJob' = [relJob EXCEPT ![c] = IF rest = <<>> THEN NoRelJob
                                            ELSE [@ EXCEPT !.todo = rest]]
         /\ callerPc' = [callerPc EXCEPT ![c] = IF rest = <<>> THEN "idle" ELSE "closingPages"]
    /\ UNCHANGED <<instances, held, waiters, nextBrowser, sweepDue, sweepJobs,
                   closedBrowsers, poolNow, destroyCo>>

\* the array destroy() iterates: this.instances itself, or the array that
\* was this.instances before a filter replaced it
DestroyArray == IF destroyCo.attached THEN instances ELSE destroyCo.arr

\* destroy() up to its first await: clearInterval, then the first
\* `await instance.browser.close()`; with no instance, `this.instances = []`
DestroyCall ==
    /\ destroyCo.pc = "none"
    /\ destroyCo' = IF instances = <<>>
                    THEN [NoDestroy EXCEPT !.pc = "done"]
                    ELSE [NoDestroy EXCEPT !.pc = "closing", !.k = 1]
    /\ UNCHANGED <<instances, callerPc, held, waiters, nextBrowser, sweepDue, sweepJobs,
                   closedBrowsers, poolNow, pages, relJob>>

\* destroy(): the awaited browser.close() settles (a rejection is caught and
\* logged); the loop goes on with the next element of the array, or ends with
\* `this.instances = []`
DestroyClose(ok) ==
    /\ destroyCo.pc = "closing"
    /\ LET b == DestroyArray[destroyCo.k].browser IN
         /\ closedBrowsers' = IF ok THEN closedBrowsers \cup {b} ELSE closedBrowsers
         /\ pages' = IF ok THEN [pages EXCEPT ![b] = <<>>] ELSE pages
    /\ IF destroyCo.k < Len(DestroyArray)
       THEN /\ destroyCo' = [destroyCo EXCEPT !.k = @ + 1]
            /\ UNCHANGED instances
       ELSE /\ destroyCo' = [NoDestroy EXCEPT !.pc = "done"]
            /\ instances' = <<>>
    /\ UNCHANGED <<callerPc, held, waiters, nextBrowser, sweepDue, sweepJobs, poolNow,
                   relJob>>

\* the steps of the pool until the signal handler that awaited destroy()
\* calls process.exit(0)
PoolLifeNext ==
    /\ destroyCo.pc # "done"
    /\ \/ \E c \in Callers : AcquireIdle(c)
       \/ \E c \in Callers : AcquireLaunchLife(c)
       \/ \E c \in Callers : CreateBrowserDone(c)
       \/ \E c \in Callers : CreateBrowserFail(c)
       \/ \E c \in Callers : OpenPage(c)
       \/ \E c \in Callers : ReleaseCall(c)
       \/ \E c \in Callers : ReleasePages(c)
       \/ \E c \in Callers, ok \in BOOLEAN : ReleaseClosePage(c, ok)
       \/ SweepTick
       \/ \E j \in 1..Len(sweepJobs), ok \in BOOLEAN : SweepClose(j, ok)
       \/ DestroyCall
       \/ \E ok \in BOOLEAN : DestroyClose(ok)
       \/ PoolTick
    /\ UNCHANGED <<queueVars, execVars, httpVars, flowVars>>

\* ========================================================================
\* RequestQueue
\* ========================================================================
\* constructor arguments (MAX_CONCURRENT_REQUESTS, REQUESTS_PER_MINUTE)
maxConcurrent == 2
requestsPerMinute == 2
\* fixed values of the queue: the sliding window and the re-check delay
RateWindow == 60000
RecheckDelay == 1000

\* bounds of the queue model
MaxWorks == 4
QueueMaxNow == 60000

Works == 1..MaxWorks

\* `this.processing >= this.maxConcurrent`
AtCapacityOff(p) == p > maxConcurrent
AtCapacity(p) == p >= maxConcurrent

\* `this.requestTimestamps.length < this.requestsPerMinute`
RateGateOpenOff(ts) == Len(ts) <= requestsPerMinute
RateGateOpen(ts) == Len(ts) < requestsPerMinute

\* canMakeRequest(): the cleaned timestamp list (it is stored back) and the verdict
CanMakeRequest(ts, t) ==
    LET cleaned == KeepNewer(ts, t - RateWindow) IN
      [timestamps |-> cleaned, ok |-> RateGateOpen(cleaned)]

\* `this.queue.shift()`: the oldest item and the remaining queue
ShiftNewest(q) == [item |-> q[Len(q)], rest |-> SubSeq(q, 1, Len(q) - 1)]
Shift(q) == [item |-> Head(q), rest |-> Tail(q)]

\* `setTimeout(() => this.processQueue(), 1000)` of a closed-gate check
RescheduleNever(tm, t) == tm
Reschedule(tm, t) == Append(tm, t + RecheckDelay)

RECURSIVE ProcessQueue(_, _)
\* processQueue() run at time t on the queue state S, up to its first real
\* suspension.  A work that throws when called is caught at once: the catch
\* and finally blocks run in the same synchronous run and call processQueue()
\* again.
ProcessQueue(S, t) ==
    IF AtCapacity(S.processing) \/ S.queue = <<>> THEN S
    ELSE LET gate == CanMakeRequest(S.requestTimestamps, t) IN
      IF ~gate.ok
      THEN [S EXCEPT !.requestTimestamps = gate.timestamps,
                     !.recheckTimers = Reschedule(@, t)]
      ELSE LET sh == Shift(S.queue)
               S1 == [S EXCEPT !.queue = sh.rest,
                               !.processing = @ + 1,
                               !.requestTimestamps = Append(gate.timestamps, t),
                               !.startLog = Append(@, [w |-> sh.item, t |-> t]),
                               !.workState[sh.item] = "running"]
           IN IF S.workKind[sh.item] = "syncThrow"
              THEN ProcessQueue([S1 EXCEPT !.processing = @ - 1,
                                           !.workState[sh.item] = "done"], t)
              ELSE S1

QueueState ==
    [queue |-> queue, processing |-> processing, requestTimestamps |-> requestTimestamps,
     recheckTimers |-> recheckTimers, workState |-> workState, workKind |-> workKind,
     startLog |-> startLog]

\* store the state computed by a run of processQueue()
QueueStore(S) ==
    /\ queue' = S.queue
    /\ processing' = S.processing
    /\ requestTimestamps' = S.requestTimestamps
    /\ recheckTimers' = S.recheckTimers
    /\ workState' = S.workState
    /\ workKind' = S.workKind
    /\ startLog' = S.startLog

QueueInit ==
    /\ queue = <<>>
    /\ processing = 0
    /\ requestTimestamps = <<>>
    /\ recheckTimers = <<>>
    /\ workState = [w \in Works |-> "new"]
    /\ workKind = [w \in Works |-> "async"]
    /\ nextWork = 1
    /\ startLog = <<>>
    /\ qNow = 0

\* enqueue(execute): push the item, then processQueue()
Enqueue(kind) ==
    /\ nextWork <= MaxWorks
    /\ nextWork' = nextWork + 1
    /\ QueueStore(ProcessQueue(
          [QueueState EXCEPT !.queue = Append(@, nextWork),
                             !.workState[nextWork] = "queued",
                             !.workKind[nextWork] = kind], qNow))
    /\ UNCHANGED qNow

\* the promise returned by a running work settles (resolved or rejected)
WorkSettle(w, ok) ==
    /\ workState[w] = "running"
    /\ workState' = [workState EXCEPT ![w] = IF ok THEN "resolved" ELSE "rejected"]
    /\ UNCHANGED <<queue, processing, requestTimestamps, recheckTimers, workKind, nextWork,
                   startLog, qNow>>

\* processQueue() resumes after `await item.execute()`: resolve or reject
\* the caller, then the finally block: processing--, processQueue()
WorkContinue(w) ==
    /\ workState[w] \in {"resolved", "rejected"}
    /\ QueueStore(ProcessQueue(
          [QueueState EXCEPT !.processing = @ - 1, !.workState[w] = "done"], qNow))
    /\ UNCHANGED <<nextWork, qNow>>

\* the oldest pending re-check timer fires: processQueue()
RecheckFire ==
    /\ recheckTimers # <<>>
    /\ Head(recheckTimers) <= qNow
    /\ QueueStore(ProcessQueue([QueueState EXCEPT !.recheckTimers = Tail(@)], qNow))
    /\ UNCHANGED <<nextWork, qNow>>

\* `this.queue.forEach(item => item.reject(new Error('Queue cleared')))`
RejectNone(ws, q) == ws
RejectPending(ws, q) ==
    [w \in Works |-> IF \E i \in 1..Len(q) : q[i] = w THEN "cleared" ELSE ws[w]]

\* clear(): reject every pending item, empty the queue
Clear ==
    /\ queue # <<>>
    /\ workState' = RejectPending(workState, queue)
    /\ queue' = <<>>
    /\ UNCHANGED <<processing, requestTimestamps, recheckTimers, workKind, nextWork,
                   startLog, qNow>>

\* the instants after qNow at which the queue can behave differently: a
\* re-check timer becomes due, or a recorded start leaves the window
QueueInstants ==
    {x \in {recheckTimers[i] : i \in 1..Len(recheckTimers)}
           \cup {requestTimestamps[i] + RateWindow : i \in 1..Len(requestTimestamps)} :
        x > qNow /\ x <= QueueMaxNow}

\* time passes for the queue, up to one of these instants (a timer that is
\* due earlier than the chosen instant fires late)
QueueTick ==
    /\ \E x \in QueueInstants : qNow' = x
    /\ UNCHANGED <<queue, processing, requestTimestamps, recheckTimers, workState, workKind,
                   nextWork, startLog>>

QueueNext ==
    /\ \/ \E kind \in {"async", "syncThrow"} : Enqueue(kind)
       \/ \E w \in Works, ok \in BOOLEAN : WorkSettle(w, ok)
       \/ \E w \in Works : WorkContinue(w)
       \/ RecheckFire
       \/ Clear
       \/ QueueTick
    /\ UNCHANGED <<poolVars, execVars, httpVars, flowVars>>

\* ========================================================================
\* BaseScraper: init / close / forceClose / execute / executeWithInit
\* ========================================================================
\* config defaults set by the constructor
timeout == 30000
retryDelay == 1000
\* fixed timer values: the launch guard of init() and the two bounds of close()
LaunchTimeout == 30000
CloseBound == 5000

\* bound of the scraper model: the largest configured maxRetries
MaxCfgRetries == 2

\* `this.config.maxRetries || 2` in execute()
MaxRetries(cfg) == IF cfg = 0 THEN 2 ELSE cfg

\* the attempts execute() can start for the configurations of the model
Attempts ==
    0..(CHOOSE m \in {MaxRetries(c) : c \in 0..MaxCfgRetries} :
           \A c \in 0..MaxCfgRetries : MaxRetries(c) <= m)
\* the browser launched by attempt a
BrowserOf(a) == a + 1
Browsers == {BrowserOf(a) : a \in Attempts}
\* caller tag of the close() call made by the catch block of execute()
CatchCaller == -1
\* end time of a sleep that has not ended yet
NotYet == -1

\* the state of one scraper object and of its execute() call, as a record
ExecState ==
    [epc |-> epc, attempt |-> attempt, result |-> result, nStarted |-> nStarted,
     nFailed |-> nFailed, att |-> att, browser |-> browser, page |-> page,
     isClosing |-> isClosing, cleanupTimeout |-> cleanupTimeout, timers |-> timers,
     bState |-> bState, pageOpen |-> pageOpen, closeCo |-> closeCo,
     closeCalls |-> closeCalls, sleepLog |-> sleepLog, procUp |-> procUp]

ExecStore(X) ==
    /\ epc' = X.epc
    /\ attempt' = X.attempt
    /\ result' = X.result
    /\ nStarted' = X.nStarted
    /\ nFailed' = X.nFailed
    /\ att' = X.att
    /\ browser' = X.browser
    /\ page' = X.page
    /\ isClosing' = X.isClosing
    /\ cleanupTimeout' = X.cleanupTimeout
    /\ timers' = X.timers
    /\ bState' = X.bState
    /\ pageOpen' = X.pageOpen
    /\ closeCo' = X.closeCo
    /\ closeCalls' = X.closeCalls
    /\ sleepLog' = X.sleepLog
    /\ procUp' = X.procUp
    /\ UNCHANGED <<cfgMaxRetries, now>>

Timer(kind, a, due) == [kind |-> kind, a |-> a, due |-> due]
DropTimers(X, kind, a) == [X EXCEPT !.timers = {t \in @ : ~(t.kind = kind /\ t.a = a)}]

\* `this.browser.process()?.kill('SIGKILL')` guarded by `this.browser?.process()`
KillCurrent(X) ==
    IF X.browser # 0 /\ X.bState[X.browser] = "live"
    THEN [X EXCEPT !.bState[X.browser] = "killed"]
    ELSE X

\* forceClose(): kill the process of this.browser, drop both handles
ForceClose(X) == [KillCurrent(X) EXCEPT !.page = 0, !.browser = 0]

\* `this.config.retryDelay! * (attempt + 1)`
BackoffFlat(i) == retryDelay
BackoffDelay(i) == retryDelay * (i + 1)

\* execute(), after the catch block's `await this.close()`: back off and
\* retry, or leave the loop and return the failure result
AfterCatch(X) ==
    IF X.attempt < MaxRetries(cfgMaxRetries)
    THEN [X EXCEPT !.epc = "sleeping",
                   !.timers = @ \cup {Timer("sleep", X.attempt,
                                            now + BackoffDelay(X.attempt))},
                   !.sleepLog = Append(@, [i |-> X.attempt, from |-> now, to |-> NotYet])]
    ELSE [X EXCEPT !.epc = "returned",
                   !.result = [success |-> FALSE, retries |-> MaxRetries(cfgMaxRetries),
                               duration |-> now]]

\* the caller of close() resumes after its `await this.close()`
ResumeCaller(X, caller) ==
    IF caller = CatchCaller
    THEN AfterCatch(X)
    ELSE [X EXCEPT !.att[caller].pc =
                      IF X.att[caller].outcome = "value" THEN "resolved" ELSE "rejected"]

\* close(), last two statements, then the caller resumes
CloseFinish(X) ==
    ResumeCaller([X EXCEPT !.page = 0, !.browser = 0, !.closeCo.pc = "done"],
                 X.closeCo.caller)

\* close(), second try block: `if (this.browser && this.browser.process())`
\* races browser.close() against the 5 s bound
CloseBrowserPhase(X) ==
    IF X.browser # 0
    THEN [X EXCEPT !.closeCo.pc = "browser", !.closeCo.target = X.browser,
                   !.closeCalls.browser[X.browser] = @ + 1,
                   !.timers = @ \cup {Timer("browserClose", 0, now + CloseBound)}]
    ELSE CloseFinish(X)

\* close(), first try block: `if (this.page && !this.page.isClosed())` races
\* page.close() against the 5 s bound
ClosePagePhase(X) ==
    IF X.page # 0 /\ X.pageOpen[X.page]
    THEN [X EXCEPT !.closeCo.pc = "page", !.closeCo.target = X.page,
                   !.closeCalls.page[X.page] = @ + 1,
                   !.timers = @ \cup {Timer("pageClose", 0, now + CloseBound)}]
    ELSE CloseBrowserPhase(X)

\* `if (this.isClosing) return;` -- the flag is set below and never reset
CloseGuardNever(X) == FALSE
CloseGuard(X) == X.isClosing

\* a call of close() by `caller`, up to its first suspension
CloseCall(X, caller) ==
    IF CloseGuard(X)
    THEN ResumeCaller(X, caller)
    ELSE ClosePagePhase(
           [DropTimers(X, "cleanup", X.cleanupTimeout - 1)
              EXCEPT !.isClosing = TRUE,
                     !.closeCo = [pc |-> "start", caller |-> caller, target |-> 0,
                                  session |-> X.browser, since |-> now]])

\* executeWithInit(): the finally block, entered with the attempt's outcome
Finally(X, a, outcome) ==
    CloseCall([X EXCEPT !.att[a] = [pc |-> "finally", outcome |-> outcome]], a)

\* init(), catch block: clearTimeout(launchTimeout); forceClose(); rethrow
InitFail(X, a) == Finally(ForceClose(DropTimers(X, "launch", a)), a, "error")

\* execute(): one loop iteration starts executeWithInit() and the race;
\* init() arms the launch guard and calls puppeteer.launch()
StartAttempt(X, a) ==
    [X EXCEPT !.epc = "racing",
              !.attempt = a,
              !.nStarted = @ + 1,
              !.att[a] = [pc |-> "launch", outcome |-> "none"],
              !.timers = @ \cup {Timer("launch", a, now + LaunchTimeout),
                                 Timer("race", a, now + 2 * timeout)}]

\* execute(): the catch block up to its `await this.close()`
EnterCatch(X) ==
    CloseCall([DropTimers(X, "race", X.attempt)
                 EXCEPT !.epc = "catchClose", !.nFailed = @ + 1], CatchCaller)

ExecInitWith(cfgs) ==
    /\ cfgMaxRetries \in cfgs
    /\ epc = "idle"
    /\ attempt = 0
    /\ result = [success |-> FALSE, retries |-> -1, duration |-> 0]
    /\ nStarted = 0
    /\ nFailed = 0
    /\ att = [a \in Attempts |-> [pc |-> "none", outcome |-> "none"]]
    /\ browser = 0
    /\ page = 0
    /\ isClosing = FALSE
    /\ cleanupTimeout = 0
    /\ timers = {}
    /\ bState = [b \in Browsers |-> "none"]
    /\ pageOpen = [b \in Browsers |-> FALSE]
    /\ closeCo = [pc |-> "none", caller |-> CatchCaller, target |-> 0,
                  session |-> 0, since |-> 0]
    /\ closeCalls = [page |-> [b \in Browsers |-> 0], browser |-> [b \in Browsers |-> 0]]
    /\ sleepLog = <<>>
    /\ now = 0
    /\ procUp = TRUE

\* a scraper constructed with any maxRetries of the model
ExecInit == ExecInitWith(0..MaxCfgRetries)

\* execute(params) is called (startTime = Date.now() = 0, so the duration
\* of the result is the clock value at the return)
ExecuteCall ==
    /\ procUp /\ epc = "idle"
    /\ ExecStore(StartAttempt(ExecState, 0))

\* init(): puppeteer.launch() resolves; this.browser is set, newPage() is called
LaunchOk(a) ==
    /\ procUp /\ att[a].pc = "launch"
    /\ ExecStore([ExecState EXCEPT !.att[a].pc = "newPage",
                                   !.browser = BrowserOf(a),
                                   !.bState[BrowserOf(a)] = "live"])

\* init(): puppeteer.launch() rejects
LaunchFail(a) ==
    /\ procUp /\ att[a].pc = "launch"
    /\ ExecStore(InitFail(ExecState, a))

\* init(): browser.newPage() resolves; this.page is set, page setup begins
NewPageOk(a) ==
    /\ procUp /\ att[a].pc = "newPage"
    /\ bState[BrowserOf(a)] = "live"
    /\ ExecStore([ExecState EXCEPT !.att[a].pc = "setup",
                                   !.page = BrowserOf(a),
                                   !.pageOpen[BrowserOf(a)] = TRUE])

\* init(): browser.newPage() rejects
NewPageFail(a) ==
    /\ procUp /\ att[a].pc = "newPage"
    /\ ExecStore(InitFail(ExecState, a))

\* init(): the page setup calls on this.page complete; the safety timer is
\* armed and the launch guard cleared
SetupOk(a) ==
    /\ procUp /\ att[a].pc = "setup"
    /\ page # 0
    /\ ExecStore([DropTimers(ExecState, "launch", a)
                    EXCEPT !.att[a].pc = "scrape",
                           !.cleanupTimeout = a + 1,
                           !.timers = @ \cup {Timer("cleanup", a, now + 3 * timeout)}])

\* init(): a page setup call throws (also when this.page was cleared meanwhile)
SetupFail(a) ==
    /\ procUp /\ att[a].pc = "setup"
    /\ ExecStore(InitFail(ExecState, a))

\* scrape(params) returns data
ScrapeReturn(a) ==
    /\ procUp /\ att[a].pc = "scrape"
    /\ ExecStore(Finally(ExecState, a, "value"))

\* scrape(params) throws
ScrapeThrow(a) ==
    /\ procUp /\ att[a].pc = "scrape"
    /\ ExecStore(Finally(ExecState, a, "error"))

\* execute() resumes from Promise.race with the outcome of executeWithInit()
RaceSettle ==
    /\ procUp /\ epc = "racing"
    /\ att[attempt].pc \in {"resolved", "rejected"}
    /\ ExecStore(IF att[attempt].pc = "resolved"
                 THEN [DropTimers(ExecState, "race", attempt)
                         EXCEPT !.epc = "returned",
                                !.result = [success |-> TRUE, retries |-> attempt,
                                           duration |-> now]]
                 ELSE EnterCatch(ExecState))

\* the hard timeout of the current attempt fires before executeWithInit() settled
RaceTimeout ==
    /\ procUp /\ epc = "racing"
    /\ att[attempt].pc \notin {"resolved", "rejected"}
    /\ \E t \in timers : t.kind = "race" /\ t.a = attempt /\ t.due <= now
    /\ ExecStore(EnterCatch(ExecState))

\* close(): page.close() settles (resolved, or rejected and caught)
PageCloseSettle(ok) ==
    /\ procUp /\ closeCo.pc = "page"
    /\ ExecStore(CloseBrowserPhase(
          [DropTimers(ExecState, "pageClose", 0)
             EXCEPT !.pageOpen[closeCo.target] = IF ok THEN FALSE ELSE @]))

\* close(): the 5 s bound on page.close() fires; the rejection is caught
PageCloseTimeout ==
    /\ procUp /\ closeCo.pc = "page"
    /\ \E t \in timers : t.kind = "pageClose" /\ t.due <= now
    /\ ExecStore(CloseBrowserPhase(DropTimers(ExecState, "pageClose", 0)))

\* close(): browser.close() resolves
BrowserCloseOk ==
    /\ procUp /\ closeCo.pc = "browser"
    /\ ExecStore(CloseFinish(
          [DropTimers(ExecState, "browserClose", 0)
             EXCEPT !.bState[closeCo.target] = IF @ = "live" THEN "closed" ELSE @,
                    !.pageOpen[closeCo.target] = FALSE]))

\* close(): browser.close() rejects; the catch block kills the process
BrowserCloseFail ==
    /\ procUp /\ closeCo.pc = "browser"
    /\ ExecStore(CloseFinish(KillCurrent(DropTimers(ExecState, "browserClose", 0))))

\* close(): the 5 s bound on browser.close() fires; the catch block kills the process
BrowserCloseTimeout ==
    /\ procUp /\ closeCo.pc = "browser"
    /\ \E t \in timers : t.kind = "browserClose" /\ t.due <= now
    /\ ExecStore(CloseFinish(KillCurrent(DropTimers(ExecState, "browserClose", 0))))

\* the safety timer armed by init() of attempt a fires
SafetyTimerFire(a) ==
    /\ procUp
    /\ \E t \in timers : t.kind = "cleanup" /\ t.a = a /\ t.due <= now
    /\ ExecStore(IF isClosing
                 THEN DropTimers(ExecState, "cleanup", a)
                 ELSE ForceClose(DropTimers(ExecState, "cleanup", a)))

\* the launch guard of init() of attempt a fires: its callback throws outside
\* of any promise, which is an uncaught exception.  No uncaughtException
\* handler is installed anywhere, so the runtime terminates the process.
LaunchTimeoutFire(a) ==
    /\ procUp
    /\ \E t \in timers : t.kind = "launch" /\ t.a = a /\ t.due <= now
    /\ ExecStore([DropTimers(ExecState, "launch", a) EXCEPT !.procUp = FALSE])

\* the backoff sleep ends: the next loop iteration starts
SleepFire ==
    /\ procUp /\ epc = "sleeping"
    /\ \E t \in timers : t.kind = "sleep" /\ t.a = attempt /\ t.due <= now
    /\ ExecStore(StartAttempt(
          [DropTimers(ExecState, "sleep", attempt)
             EXCEPT !.sleepLog[Len(sleepLog)].to = now], attempt + 1))

\* time passes for the scraper: to the next pending timer, once every timer
\* that is due has fired
ExecTick ==
    /\ procUp
    /\ timers # {}
    /\ \A t \in timers : t.due > now
    /\ \E t \in timers :
          /\ \A u \in timers : t.due <= u.due
          /\ now' = t.due
    /\ UNCHANGED <<cfgMaxRetries, epc, attempt, result, nStarted, nFailed, att, browser, page,
                   isClosing, cleanupTimeout, timers, bState, pageOpen, closeCo, closeCalls,
                   sleepLog, procUp>>

ExecNext ==
    /\ \/ ExecuteCall
       \/ \E a \in Attempts : LaunchOk(a)
       \/ \E a \in Attempts : LaunchFail(a)
       \/ \E a \in Attempts : NewPageOk(a)
       \/ \E a \in Attempts : NewPageFail(a)
       \/ \E a \in Attempts : SetupOk(a)
       \/ \E a \in Attempts : SetupFail(a)
       \/ \E a \in Attempts : ScrapeReturn(a)
       \/ \E a \in Attempts : ScrapeThrow(a)
       \/ RaceSettle
       \/ RaceTimeout
       \/ \E ok \in BOOLEAN : PageCloseSettle(ok)
       \/ PageCloseTimeout
       \/ BrowserCloseOk
       \/ BrowserCloseFail
       \/ BrowserCloseTimeout
       \/ \E a \in Attempts : SafetyTimerFire(a)
       \/ \E a \in Attempts : LaunchTimeoutFire(a)
       \/ SleepFire
       \/ ExecTick
    /\ UNCHANGED <<poolVars, queueVars, httpVars, flowVars>>

\* ========================================================================
\* HTTP surface: handleScraperRoutes -> ScraperManager.execute ->
\* BaseScraper.execute -> init() -> puppeteer.launch
\* ========================================================================
NumRequests == 4        \* requests the model lets arrive
Requests == 1..NumRequests

HttpInit == httpPc = [r \in Requests |-> "none"]

\* POST or GET /api/scrape/:name for a registered scraper: the route awaits
\* scraperManager.execute(), which constructs a scraper of its own and calls
\* its execute(); init() calls puppeteer.launch.  Neither requestQueue nor
\* browserPool is consulted on this path.
HttpDispatch(r) ==
    /\ httpPc[r] = "none"
    /\ httpPc' = [httpPc EXCEPT ![r] = "launching"]

\* the same routes for a name that is not registered: 404, nothing starts
HttpNotFound(r) ==
    /\ httpPc[r] = "none"
    /\ httpPc' = [httpPc EXCEPT ![r] = "responded"]

\* init(): puppeteer.launch of this request's scraper has resolved
HttpLaunched(r) ==
    /\ httpPc[r] = "launching"
    /\ httpPc' = [httpPc EXCEPT ![r] = "scraping"]

\* scraper.execute() has returned its result (the scraper closed whatever it
\* launched); the route answers 200 or 500
HttpRespond(r) ==
    /\ httpPc[r] \in {"launching", "scraping"}
    /\ httpPc' = [httpPc EXCEPT ![r] = "responded"]

HttpNext ==
    /\ \/ \E r \in Requests : HttpDispatch(r)
       \/ \E r \in Requests : HttpNotFound(r)
       \/ \E r \in Requests : HttpLaunched(r)
       \/ \E r \in Requests : HttpRespond(r)
    /\ UNCHANGED <<poolVars, queueVars, execVars, flowVars>>

\* ========================================================================
\* The challenge flow of scrape() in the scrapers that handle challenges
\* ========================================================================
\* the second-challenge wait and the manual wait: `for (let i = 0; i < 18; i++)`
\* with a 5000 ms sleep in each round
PollBudget == 18
PollInterval == 5000

\* the registered scrapers whose scrape() handles a challenge, and all the
\* registered scrapers
ChalScrapers == {"google-search", "google-recaptcha-demo", "recaptcha-test"}
Scrapers == {"example"} \cup ChalScrapers

\* a scraper constructed with or without a solver: BaseScraper's constructor
\* creates recaptchaExtension or recaptchaSolver only when
\* config.recaptcha.enabled is set
ChalWith(sc, st) ==
    [scraper |-> sc, strategy |-> st, pc |-> "start", had |-> FALSE, solved |-> FALSE,
     reloaded |-> FALSE, polls |-> 0, token |-> FALSE, submitted |-> FALSE,
     outcome |-> "none", error |-> "none", now |-> 0]

\* scrape() throws: the attempt fails with that error
ChalThrow(ch, err) == [ch EXCEPT !.pc = "done", !.outcome = "thrown", !.error = err]

\* the condition of the form submission after the waits: `if (solved ||
\* hadRecaptcha)` in RecaptchaTestScraper, `if (solved)` in
\* GoogleRecaptchaDemoScraper
SubmitGate(ch) ==
    IF ch.scraper = "recaptcha-test" THEN ch.solved \/ ch.had ELSE ch.solved

\* the code after the waits, up to its next await
AfterWaits(ch) ==
    [ch EXCEPT !.pc = IF SubmitGate(ch) THEN "submitting" ELSE "finishing"]

\* the detection at the start of scrape() answers `had`; ExampleScraper
\* makes none and goes on to its extraction
ChalDetect(had) ==
    /\ chal.pc = "start"
    /\ chal.scraper = "example" => ~had
    /\ LET ch == [chal EXCEPT !.had = had] IN
       chal' =
         CASE chal.scraper = "example" -> [ch EXCEPT !.pc = "finishing"]
           [] chal.scraper = "google-search" ->
                IF ~had THEN [ch EXCEPT !.pc = "finishing"]
                ELSE IF chal.strategy THEN [ch EXCEPT !.pc = "solving"]
                ELSE ChalThrow(ch, "configure a reCAPTCHA solver")
           [] chal.scraper = "google-recaptcha-demo" ->
                IF ~had THEN ChalThrow(ch, "grecaptcha object not found")
                ELSE IF chal.strategy THEN [ch EXCEPT !.pc = "solving"]
                ELSE [ch EXCEPT !.pc = "finishing"]
           [] OTHER ->
                IF had THEN [ch EXCEPT !.pc = "solving"] ELSE AfterWaits(ch)

\* the first solving step answers ok: waitForCaptchaSolved() of the two Google
\* scrapers, solveRecaptcha() of RecaptchaTestScraper, which answers false at
\* once when neither an extension nor a solver is configured
ChalSolved(ok) ==
    /\ chal.pc = "solving"
    /\ (chal.scraper = "recaptcha-test" /\ ~chal.strategy) => ~ok
    /\ LET ch == [chal EXCEPT !.solved = ok] IN
       chal' =
         CASE chal.scraper = "google-search" ->
                IF ok THEN [ch EXCEPT !.pc = "finishing"]
                ELSE ChalThrow(ch, "could not solve within the timeout")
           [] chal.scraper = "google-recaptcha-demo" ->
                IF ok THEN [ch EXCEPT !.pc = "settling"] ELSE AfterWaits(ch)
           [] OTHER ->
                IF ok THEN [ch EXCEPT !.pc = "settling"]
                ELSE [ch EXCEPT !.pc = "manualPoll", !.polls = 0]

\* after the pause that follows a solve: is there an iframe[src*="bframe"]?
ChalReloadCheck(bframe) ==
    /\ chal.pc = "settling"
    /\ chal' = IF bframe
               THEN [chal EXCEPT !.reloaded = TRUE, !.pc = "secondPoll", !.polls = 0]
               ELSE AfterWaits(chal)

\* one round of a wait loop: sleep 5 s, then read grecaptcha.getResponse();
\* a token ends the loop with solved = true, the 18th round without one ends
\* it with solved = false
ChalPoll ==
    /\ chal.pc \in {"secondPoll", "manualPoll"}
    /\ LET ch == [chal EXCEPT !.now = @ + PollInterval, !.polls = @ + 1] IN
       chal' = IF chal.token THEN AfterWaits([ch EXCEPT !.solved = TRUE])
               ELSE IF ch.polls = PollBudget THEN AfterWaits([ch EXCEPT !.solved = FALSE])
               ELSE ch

\* a person (or the extension) solves the challenge while a wait loop runs
ChalTokenAppears ==
    /\ chal.pc \in {"secondPoll", "manualPoll"}
    /\ ~chal.token
    /\ chal' = [chal EXCEPT !.token = TRUE]

\* the form is filled and the submit button is looked up and clicked
ChalSubmit(found) ==
    /\ chal.pc = "submitting"
    /\ chal' = [chal EXCEPT !.submitted = found, !.pc = "finishing"]

\* scrape() returns its result
ChalReturn ==
    /\ chal.pc = "finishing"
    /\ chal' = [chal EXCEPT !.pc = "done", !.outcome = "returned"]

ChalNext ==
    /\ \/ \E had \in BOOLEAN : ChalDetect(had)
       \/ \E ok \in BOOLEAN : ChalSolved(ok)
       \/ \E bframe \in BOOLEAN : ChalReloadCheck(bframe)
       \/ ChalPoll
       \/ ChalTokenAppears
       \/ \E found \in BOOLEAN : ChalSubmit(found)
       \/ ChalReturn
    /\ UNCHANGED <<poolVars, queueVars, execVars, httpVars, solver, det, route, tab, net, ext, pageOp>>

\* ========================================================================
\* RecaptchaSolver.waitAndSolve
\* ========================================================================
\* config.timeout || 180000; the sleeps of the loops; maxAttempts = 3
SolveTimeout == 180000
ManualInterval == 2000
ProviderInterval == 5000
RetryPause == 2000
MaxSolveAttempts == 3

Providers == {"manual", "2captcha", "anti-captcha"}
\* detectRecaptcha(): the bounded waits of its first two layers
IframeWait == 10000
GlobalWait == 5000
\* how long a detectRecaptcha() call that finds the challenge takes inside the
\* manual loop: the iframe is visible at once, or the wait for it runs out
\* and the global object is there
DetectTimes == {0, IframeWait}
\* the answers of the provider's "get result" endpoint
Responses == {"ready", "notReady", "error"}

SolverWith(pr, key) ==
    [provider |-> pr, apiKey |-> key, pc |-> "idle", attempt |-> 0, start |-> 0, now |-> 0,
     tasks |-> 0, polls |-> 0, lastResp |-> "none", outcome |-> "none", error |-> "none",
     detected |-> "none", token |-> FALSE]

\* how a detectRecaptcha() call can end: a challenge is found, none is found,
\* or an error is caught (the page was closed or is navigating), and what the
\* call returns then: its catch block returns false
DetectOutcomes == {"present", "absent", "error"}
DetectAnswer(o) == o = "present"

\* waitAndSolve(): solve() has returned true
SolveTrue(sv) == [sv EXCEPT !.pc = "done", !.outcome = "true"]

\* waitAndSolve(): solve() has returned false; sleep 2 s and try again unless
\* this was the last attempt, after which the loop ends and false is returned
SolveFalse(sv) ==
    IF sv.attempt < MaxSolveAttempts THEN [sv EXCEPT !.pc = "retryPause"]
    ELSE [sv EXCEPT !.pc = "done", !.outcome = "false"]

\* waitAndSolve(): solve() has thrown; the last attempt rethrows, an earlier
\* one goes straight to the next attempt, whose solve() starts by detecting
SolveThrow(sv, err) ==
    IF sv.attempt = MaxSolveAttempts
    THEN [sv EXCEPT !.pc = "done", !.outcome = "thrown", !.error = err]
    ELSE [sv EXCEPT !.pc = "detect", !.attempt = @ + 1, !.error = err]

\* waitAndSolve(page) is called: the first solve() starts by detecting
SolverStart ==
    /\ solver.pc = "idle"
    /\ solver' = [solver EXCEPT !.pc = "detect", !.attempt = 1]

\* solve(): detectRecaptcha() answers.  No challenge: true.  Otherwise the
\* provider's function runs to its first await; the two remote ones throw at
\* once without an API key.
SolverDetect(o) ==
    /\ solver.pc = "detect"
    /\ LET sv == [solver EXCEPT !.detected = o] IN
       solver' =
         IF ~DetectAnswer(o) THEN SolveTrue(sv)
         ELSE IF solver.provider = "manual" THEN [sv EXCEPT !.pc = "click"]
         ELSE IF ~solver.apiKey THEN SolveThrow(sv, "API key is required")
         ELSE [sv EXCEPT !.pc = "submit"]

\* solveManually(): the attempt to click the checkbox is over (its failure is
\* only logged); startTime is taken and the loop is entered
SolverClicked ==
    /\ solver.pc = "click"
    /\ solver' = [solver EXCEPT !.pc = "manualLoop", !.start = solver.now]

\* solveManually(): one round of the loop: detectRecaptcha() (d ms), the read
\* of the response field, then the 2 s sleep and the loop condition
SolverManualRound(o, filled, d) ==
    /\ solver.pc = "manualLoop"
    /\ IF ~DetectAnswer(o)
       THEN solver' = SolveTrue([solver EXCEPT
                                    !.detected = o,
                                    !.now = @ + (IF o = "absent" THEN IframeWait + GlobalWait
                                                 ELSE d)])
       ELSE IF filled
       THEN solver' = SolveTrue([solver EXCEPT !.detected = o, !.token = TRUE,
                                                !.now = @ + d])
       ELSE LET sv == [solver EXCEPT !.detected = o, !.now = @ + d + ManualInterval] IN
            solver' = IF sv.now - sv.start < SolveTimeout THEN sv
                      ELSE SolveThrow(sv, "Manual captcha solving timeout")

\* solveWith2Captcha() / solveWithAntiCaptcha(): the provider answers the
\* "create task" call; a refusal is thrown inside the try block, whose catch
\* returns false
SolverSubmit(ok) ==
    /\ solver.pc = "submit"
    /\ solver' =
         IF ok THEN [solver EXCEPT !.pc = "polling", !.tasks = @ + 1, !.polls = 0,
                                   !.lastResp = "none", !.start = solver.now]
         ELSE SolveFalse([solver EXCEPT !.error = "submit failed"])

\* one round of the provider loop: sleep 5 s, ask for the result.  A token is
\* applied and true returned; "not ready" goes back to the loop condition,
\* which throws the timeout error when the time is up; anything else throws.
\* All these throws are caught inside the function, which then returns false.
SolverPoll(r) ==
    /\ solver.pc = "polling"
    /\ LET sv == [solver EXCEPT !.now = @ + ProviderInterval, !.polls = @ + 1,
                                !.lastResp = r] IN
       solver' =
         CASE r = "ready" -> SolveTrue(sv)
           [] r = "notReady" ->
                IF sv.now - sv.start < SolveTimeout THEN sv
                ELSE SolveFalse([sv EXCEPT !.error = "provider timeout"])
           [] OTHER -> SolveFalse([sv EXCEPT !.error = "provider error"])

\* waitAndSolve(): the 2 s sleep before the next attempt is over
SolverRetry ==
    /\ solver.pc = "retryPause"
    /\ solver' = [solver EXCEPT !.pc = "detect", !.attempt = @ + 1, !.now = @ + RetryPause]

SolverNext ==
    /\ \/ SolverStart
       \/ \E o \in DetectOutcomes : SolverDetect(o)
       \/ SolverClicked
       \/ \E o \in DetectOutcomes, filled \in BOOLEAN, d \in DetectTimes :
             SolverManualRound(o, filled, d)
       \/ \E ok \in BOOLEAN : SolverSubmit(ok)
       \/ \E r \in Responses : SolverPoll(r)
       \/ SolverRetry
    /\ UNCHANGED <<poolVars, queueVars, execVars, httpVars, chal, det, route, tab, net, ext, pageOp>>

\* ========================================================================
\* RecaptchaSolver.detectRecaptcha
\* ========================================================================
\* "does not happen" as a time
Never == -1
\* when (ms after the call) a visible challenge iframe is in the page, and
\* when `grecaptcha` is defined
IframeTimes == {0, 4000, 12000, Never}
GlobalTimes == {0, 12000, 20000, Never}

\* the page under detection: dom says whether the page holds one of the
\* other marks of the third layer (.g-recaptcha, the api.js script tag, the
\* hCaptcha container or iframe); throws says whether page.evaluate rejects
DetWith(i, g, dom, th) ==
    [iframeAt |-> i, globalAt |-> g, dom |-> dom, throws |-> th,
     pc |-> "idle", t |-> 0, result |-> FALSE, layer |-> 0]

Max(a, b) == IF a >= b THEN a ELSE b

\* page.waitForSelector(iframe, {timeout: 10000, visible: true}) resolves
IframeSeen(d) == d.iframeAt # Never /\ d.iframeAt <= d.t + IframeWait

\* page.waitForFunction(() => typeof grecaptcha !== 'undefined',
\* {timeout: 5000}) resolves
GlobalSeenNever(d) == FALSE
GlobalSeen(d) == d.globalAt # Never /\ d.globalAt <= d.t + GlobalWait

\* the page.evaluate of the third layer: any of the marks, a challenge
\* iframe, or the global object
DomQuery(d) ==
    \/ d.dom
    \/ d.iframeAt # Never /\ d.iframeAt <= d.t
    \/ d.globalAt # Never /\ d.globalAt <= d.t

DetectFound(d, n, at) == [d EXCEPT !.pc = "done", !.result = TRUE, !.layer = n, !.t = at]

\* detectRecaptcha(page) is called: the wait for the iframe starts
DetectCall ==
    /\ det.pc = "idle"
    /\ det' = [det EXCEPT !.pc = "layer1"]

\* layer 1 settles: the iframe is there (return true), or the wait times out
\* and the wait for the global object starts
DetectIframeWait ==
    /\ det.pc = "layer1"
    /\ det' = IF IframeSeen(det) THEN DetectFound(det, 1, Max(det.t, det.iframeAt))
              ELSE [det EXCEPT !.pc = "layer2", !.t = @ + IframeWait]

\* layer 2 settles: the object is defined (return true), or the wait times
\* out and the DOM query is made
DetectGlobalWait ==
    /\ det.pc = "layer2"
    /\ det' = IF GlobalSeen(det) THEN DetectFound(det, 2, Max(det.t, det.globalAt))
              ELSE [det EXCEPT !.pc = "layer3", !.t = @ + GlobalWait]

\* layer 3 settles: the answer of the DOM query is returned; a rejection is
\* caught by the outer catch, which returns false
DetectDomQuery ==
    /\ det.pc = "layer3"
    /\ det' = IF ~det.throws /\ DomQuery(det) THEN DetectFound(det, 3, det.t)
              ELSE [det EXCEPT !.pc = "done", !.result = FALSE]

DetectNext ==
    /\ \/ DetectCall
       \/ DetectIframeWait
       \/ DetectGlobalWait
       \/ DetectDomQuery
    /\ UNCHANGED <<poolVars, queueVars, execVars, httpVars, chal, solver, route, tab, net, ext, pageOp>>

\* ========================================================================
\* handleScraperRoutes: /api/scrape/:name
\* ========================================================================
\* the handler of routes/scraper.routes.ts ("plain": it awaits
\* scraperManager.execute()) and the version of the same file that races
\* execute() against a 60 s timer ("guarded")
RouteVariants == {"plain", "guarded"}
RouteGuard == 60000
\* the names a request can carry: the registered scrapers and another one
RouteNames == Scrapers \cup {"unknown"}
\* bound: how far the clock of a request runs, and its step
RouteMaxNow == 120000
RouteStep == 20000

RouteWith(v, n, m) ==
    [variant |-> v, name |-> n, method |-> m, pc |-> "new", since |-> 0, now |-> 0,
     status |-> 0]

RouteAnswer(rt, st) == [rt EXCEPT !.pc = "answered", !.status = st]

\* the request arrives: 404 for a name that is not registered; otherwise
\* execute() is started (and, in the guarded version, the 60 s timer)
RouteDispatch ==
    /\ route.pc = "new"
    /\ route' = IF route.name \notin Scrapers THEN RouteAnswer(route, 404)
                ELSE [route EXCEPT !.pc = "waiting", !.since = route.now]
    /\ UNCHANGED <<poolVars, queueVars, execVars, httpVars, chal, solver, det, tab, net, ext, pageOp>>

\* scraperManager.execute() resolves with its result: 200 or 500
RouteExecuted(success) ==
    /\ route.pc = "waiting"
    /\ route' = RouteAnswer(route, IF success THEN 200 ELSE 500)
    /\ UNCHANGED <<poolVars, queueVars, execVars, httpVars, chal, solver, det, tab, net, ext, pageOp>>

\* guarded version: the timer rejects with 'Request timeout after 60 seconds'
\* and the catch answers 504
RouteTimerFires ==
    /\ route.variant = "guarded"
    /\ route.pc = "waiting"
    /\ route.now >= route.since + RouteGuard
    /\ route' = RouteAnswer(route, 504)
    /\ UNCHANGED <<poolVars, queueVars, execVars, httpVars, chal, solver, det, tab, net, ext, pageOp>>

\* time passes for a request that is not answered yet, once a timer that is
\* due has fired
RouteTick ==
    /\ route.pc # "answered"
    /\ (route.variant = "guarded" /\ route.pc = "waiting") =>
           route.now < route.since + RouteGuard
    /\ route.now + RouteStep <= RouteMaxNow
    /\ route' = [route EXCEPT !.now = @ + RouteStep]
    /\ UNCHANGED <<poolVars, queueVars, execVars, httpVars, chal, solver, det, tab, net, ext, pageOp>>

RouteNext ==
    \/ RouteDispatch
    \/ \E success \in BOOLEAN : RouteExecuted(success)
    \/ RouteTimerFires
    \/ RouteTick

\* ========================================================================
\* init() and close() of a scraper: the browser and its tabs
\* ========================================================================
\* the pages a browser has when puppeteer.launch() resolves: its default
\* page, or none (the case the fallback of initWithExtension is written for)
DefaultPages == {0, 1}
\* bound: how many times one scraper object is initialised
TabMaxRounds == 3

\* the scraper objects: the registered scrapers, which extend BaseScraper,
\* and an ExtensionScraper
TabScrapers == Scrapers \cup {"extension"}
ClassOf(sc) == IF sc = "extension" THEN "ExtensionScraper" ELSE "BaseScraper"

TabWith(sc, ec) ==
    [scraper |-> sc, cls |-> ClassOf(sc), extensionConfig |-> ec, pc |-> "idle",
     open |-> 0, page |-> 0, round |-> 1]

\* ExtensionScraper.init: super.init() unless an extension is configured
UsesExtensionInit(t) == t.cls = "ExtensionScraper" /\ t.extensionConfig

\* init() up to `await puppeteer.launch(...)`
TabInit ==
    /\ tab.pc = "idle"
    /\ tab' = [tab EXCEPT !.pc = "launching"]
    /\ UNCHANGED <<poolVars, queueVars, execVars, httpVars, chal, solver, det, route, net, ext, pageOp>>

\* launch resolves with a browser that has n pages, or rejects
TabLaunched(n) ==
    /\ tab.pc = "launching"
    /\ tab' = [tab EXCEPT !.pc = "launched", !.open = n]
    /\ UNCHANGED <<poolVars, queueVars, execVars, httpVars, chal, solver, det, route, net, ext, pageOp>>

TabLaunchFails ==
    /\ tab.pc = "launching"
    /\ tab' = [tab EXCEPT !.pc = "failed"]
    /\ UNCHANGED <<poolVars, queueVars, execVars, httpVars, chal, solver, det, route, net, ext, pageOp>>

\* this.page: BaseScraper.init takes browser.newPage(); initWithExtension
\* takes pages[0] and calls newPage() only if the browser has no page
PageOfNewPage(t) == [t EXCEPT !.open = @ + 1, !.page = t.open + 1]
PageOfInit(t) ==
    IF UsesExtensionInit(t) /\ t.open > 0 THEN [t EXCEPT !.page = 1]
    ELSE PageOfNewPage(t)

TabPage ==
    /\ tab.pc = "launched"
    /\ tab' = [PageOfInit(tab) EXCEPT !.pc = "setup"]
    /\ UNCHANGED <<poolVars, queueVars, execVars, httpVars, chal, solver, det, route, net, ext, pageOp>>

\* the rest of init(): the page's settings; a rejection there force-closes
\* the browser and init() throws
TabSetup(ok) ==
    /\ tab.pc = "setup"
    /\ tab' = IF ok THEN [tab EXCEPT !.pc = "ready"]
              ELSE [tab EXCEPT !.pc = "failed", !.open = 0, !.page = 0]
    /\ UNCHANGED <<poolVars, queueVars, execVars, httpVars, chal, solver, det, route, net, ext, pageOp>>

\* close() after the attempt; the next attempt starts with init() again
TabClose ==
    /\ tab.pc \in {"ready", "failed"}
    /\ tab.round < TabMaxRounds
    /\ tab' = [tab EXCEPT !.pc = "idle", !.open = 0, !.page = 0, !.round = @ + 1]
    /\ UNCHANGED <<poolVars, queueVars, execVars, httpVars, chal, solver, det, route, net, ext, pageOp>>

TabNext ==
    \/ TabInit
    \/ \E n \in DefaultPages : TabLaunched(n)
    \/ TabLaunchFails
    \/ TabPage
    \/ \E ok \in BOOLEAN : TabSetup(ok)
    \/ TabClose

\* ========================================================================
\* The request handler installed by init()
\* ========================================================================
\* the resource types a request can have
ResourceTypes ==
    {"document", "stylesheet", "image", "media", "font", "script", "texttrack", "xhr",
     "fetch", "eventsource", "websocket", "manifest", "other"}
\* URLs, each as the sequence of the parts it is made of
Urls ==
    { <<"example.com", "index.html">>,
      <<"example.com", "style.css">>,
      <<"www.google.com", "recaptcha", "api.js">>,
      <<"www.", "gstatic.com", "recaptcha", "styles.css">>,
      <<"fonts.", "gstatic.com", "font.woff2">> }
\* String.prototype.includes
Includes(url, part) == \E i \in DOMAIN url : url[i] = part

\* the types the handler aborts
HeavyTypes == {"image", "stylesheet", "font", "media"}

\* page.on('request', ...): the verdict depends on the resource type only
OnRequest(ty, url) == IF ty \in HeavyTypes THEN "abort" ELSE "continue"

NetIdle == [type |-> "document", url |-> <<"example.com", "index.html">>, verdict |-> "none"]

\* the page issues a request
NetRequest(ty, url) ==
    /\ net.verdict # "pending"
    /\ net' = [type |-> ty, url |-> url, verdict |-> "pending"]
    /\ UNCHANGED <<poolVars, queueVars, execVars, httpVars, chal, solver, det, route, tab, ext, pageOp>>

\* the handler runs for it
NetIntercept ==
    /\ net.verdict = "pending"
    /\ net' = [net EXCEPT !.verdict = OnRequest(net.type, net.url)]
    /\ UNCHANGED <<poolVars, queueVars, execVars, httpVars, chal, solver, det, route, tab, ext, pageOp>>

NetNext ==
    \/ \E ty \in ResourceTypes, url \in Urls : NetRequest(ty, url)
    \/ NetIntercept

\* ========================================================================
\* RecaptchaExtension: setupPage / detect / solve
\* ========================================================================
\* waitForExtension's default timeout, and the pause of solveRecaptcha
\* between solve() and isSolved()
ExtWait == 5000
ExtVerifyPause == 2000
\* how long after a document starts the extension defines its global object
LoadDelays == {0, 1000, 8000, Never}
\* bound: how far the clock of the page runs, and its step
ExtMaxNow == 12000
ExtStep == 1000

ExtWith(d) ==
    [pc |-> "new", now |-> 0, definedAt |-> d, op |-> "none", calledAt |-> 0,
     answeredAt |-> 0, result |-> FALSE, unavailable |-> FALSE, threw |-> FALSE]

\* typeof window.__recaptchaSolver !== 'undefined' at time t
ExtDefined(e, t) == e.definedAt # Never /\ e.definedAt <= t

\* setupPage: configureExtension, then waitForExtension, whose result is
\* dropped: it resolves when the object is defined or after ExtWait
ExtSetupPage ==
    /\ ext.pc = "new"
    /\ ext' = [ext EXCEPT !.pc = "ready",
                          !.now = IF ExtDefined(ext, ext.now + ExtWait)
                                  THEN Max(ext.now, ext.definedAt)
                                  ELSE ext.now + ExtWait]
    /\ UNCHANGED <<poolVars, queueVars, execVars, httpVars, chal, solver, det, route, tab, net, pageOp>>

\* the scraper navigates: a new document, in which the object is defined
\* after d, or never
ExtNavigate(d) ==
    /\ ext.pc = "ready"
    /\ ext' = [ext EXCEPT !.definedAt = IF d = Never THEN Never ELSE ext.now + d]
    /\ UNCHANGED <<poolVars, queueVars, execVars, httpVars, chal, solver, det, route, tab, net, pageOp>>

\* time passes between the steps of the scraper
ExtSleep ==
    /\ ext.pc = "ready"
    /\ ext.now + ExtStep <= ExtMaxNow
    /\ ext' = [ext EXCEPT !.now = @ + ExtStep]
    /\ UNCHANGED <<poolVars, queueVars, execVars, httpVars, chal, solver, det, route, tab, net, pageOp>>

ExtAnswer(e, op, t, res) ==
    [e EXCEPT !.op = op, !.calledAt = e.now, !.answeredAt = t, !.now = t, !.result = res,
              !.unavailable = ~ExtDefined(e, e.now), !.threw = FALSE]

\* detectRecaptcha: one page.evaluate, false when the object is undefined or
\* when evaluate rejects
ExtDetect(hasAny, rejects) ==
    /\ ext.pc = "ready"
    /\ ext' = ExtAnswer(ext, "detect", ext.now,
                        ExtDefined(ext, ext.now) /\ ~rejects /\ hasAny)
    /\ UNCHANGED <<poolVars, queueVars, execVars, httpVars, chal, solver, det, route, tab, net, pageOp>>

\* solveRecaptcha: evaluate solve(); if it gave true, pause and evaluate
\* isSolved(); false when the object is undefined or an evaluate rejects
ExtSolve(solved, isSolved, rejects) ==
    /\ ext.pc = "ready"
    /\ ext.now + ExtVerifyPause <= ExtMaxNow
    /\ ext' = IF ExtDefined(ext, ext.now) /\ ~rejects /\ solved
              THEN ExtAnswer(ext, "solve", ext.now + ExtVerifyPause, isSolved)
              ELSE ExtAnswer(ext, "solve", ext.now, FALSE)
    /\ UNCHANGED <<poolVars, queueVars, execVars, httpVars, chal, solver, det, route, tab, net, pageOp>>

ExtNext ==
    \/ ExtSetupPage
    \/ \E d \in LoadDelays : ExtNavigate(d)
    \/ ExtSleep
    \/ \E hasAny \in BOOLEAN, rejects \in BOOLEAN : ExtDetect(hasAny, rejects)
    \/ \E solved \in BOOLEAN, isSolved \in BOOLEAN, rejects \in BOOLEAN :
          ExtSolve(solved, isSolved, rejects)

\* ========================================================================
\* scrape(): operations on this.page
\* ========================================================================
NoPageOp == [a |-> -1, page |-> 0]

\* a scrape() call that has not returned makes its next call on `this.page!`
\* (url(), evaluate(), goto(), ...), which it reads from the scraper at that
\* moment; nothing tells it that its attempt was abandoned
ScrapeOp(a) ==
    /\ procUp /\ att[a].pc = "scrape"
    /\ page # 0
    /\ pageOp' = [a |-> a, page |-> page]
    /\ UNCHANGED <<poolVars, queueVars, execVars, httpVars, chal, solver, det, route, tab,
                   net, ext>>

\* ========================================================================
\* Timeout configuration
\* ========================================================================
\* the configuration a scraper passes to BaseScraper when it is constructed
\* without arguments: the `timeout` and `recaptcha.timeout` its constructor
\* sets, or BaseScraper's default timeout and RecaptchaSolver's default
ConfigOf(sc) ==
    CASE sc = "google-search" -> [timeout |-> 240000, solve |-> 120000]
      [] sc \in {"google-recaptcha-demo", "recaptcha-test"} ->
            [timeout |-> 360000, solve |-> 360000]
      [] OTHER -> [timeout |-> timeout, solve |-> SolveTimeout]

\* execute(): the deadline raced against one attempt
HardTimeout(c) == c.timeout * 2

\* the sleeps of execute() before retries 1..n
RECURSIVE BackoffSum(_)
BackoffSum(n) == IF n = 0 THEN 0 ELSE BackoffSum(n - 1) + BackoffDelay(n - 1)

\* the longest execute() can take with `maxRetries: config.maxRetries ?? 2`:
\* every attempt runs into its deadline
TotalWallClock(c) == HardTimeout(c) * (MaxRetries(2) + 1) + BackoffSum(MaxRetries(2))

\* ========================================================================
\* Specifications
\* ========================================================================
\* the scraper as constructed with the default configuration
ExecIdle == ExecInitWith({2})

\* no scrape() call is running
FlowIdle ==
    /\ chal = ChalWith("example", FALSE)
    /\ solver = SolverWith("manual", FALSE)
    /\ det = DetWith(Never, Never, FALSE, FALSE)
    /\ route = RouteWith("plain", "example", "GET")
    /\ tab = TabWith("example", FALSE)
    /\ net = NetIdle
    /\ ext = ExtWith(Never)
    /\ pageOp = NoPageOp

Init == PoolInit /\ QueueInit /\ ExecIdle /\ HttpInit /\ FlowIdle
InitExec == PoolInit /\ QueueInit /\ ExecInit /\ HttpInit /\ FlowIdle

SpecPool == Init /\ [][PoolNext]_vars
SpecQueue == Init /\ [][QueueNext]_vars
SpecExec == InitExec /\ [][ExecNext]_vars
\* execute() with the operations the running scrape() calls make on this.page
SpecScrapeOps == InitExec /\ [][ExecNext \/ (\E a \in Attempts : ScrapeOp(a))]_vars
SpecHttp == Init /\ [][HttpNext]_vars

\* the pool with LifeCallers callers that open pages, and with destroy()
InitLife == PoolInitWith(LifeCallers) /\ QueueInit /\ ExecIdle /\ HttpInit /\ FlowIdle
SpecPoolLife == InitLife /\ [][PoolLifeNext]_vars

\* one scrape() call of a registered scraper, constructed with or without
\* `recaptcha.enabled`
InitChal ==
    /\ PoolInit /\ QueueInit /\ ExecIdle /\ HttpInit
    /\ \E sc \in Scrapers, st \in BOOLEAN : chal = ChalWith(sc, st)
    /\ solver = SolverWith("manual", FALSE)
    /\ det = DetWith(Never, Never, FALSE, FALSE)
    /\ route = RouteWith("plain", "example", "GET")
    /\ tab = TabWith("example", FALSE)
    /\ net = NetIdle
    /\ ext = ExtWith(Never)
    /\ pageOp = NoPageOp
SpecChal == InitChal /\ [][ChalNext]_vars

\* one waitAndSolve() call of a solver constructed for one of the providers,
\* with or without an API key
InitSolver ==
    /\ PoolInit /\ QueueInit /\ ExecIdle /\ HttpInit
    /\ chal = ChalWith("example", FALSE)
    /\ \E pr \in Providers, key \in BOOLEAN : solver = SolverWith(pr, key)
    /\ det = DetWith(Never, Never, FALSE, FALSE)
    /\ route = RouteWith("plain", "example", "GET")
    /\ tab = TabWith("example", FALSE)
    /\ net = NetIdle
    /\ ext = ExtWith(Never)
    /\ pageOp = NoPageOp
SpecSolver == InitSolver /\ [][SolverNext]_vars

\* one detectRecaptcha() call on a page on which the visible iframe and the
\* global object appear at some time or never
InitDetect ==
    /\ PoolInit /\ QueueInit /\ ExecIdle /\ HttpInit
    /\ chal = ChalWith("example", FALSE)
    /\ solver = SolverWith("manual", FALSE)
    /\ \E i \in IframeTimes, g \in GlobalTimes, dom \in BOOLEAN, th \in BOOLEAN :
          det = DetWith(i, g, dom, th)
    /\ route = RouteWith("plain", "example", "GET")
    /\ tab = TabWith("example", FALSE)
    /\ net = NetIdle
    /\ ext = ExtWith(Never)
    /\ pageOp = NoPageOp
SpecDetect == InitDetect /\ [][DetectNext]_vars

\* one POST or GET request to /api/scrape/:name, handled by one of the two
\* versions of handleScraperRoutes
InitRoute ==
    /\ PoolInit /\ QueueInit /\ ExecIdle /\ HttpInit
    /\ chal = ChalWith("example", FALSE)
    /\ solver = SolverWith("manual", FALSE)
    /\ det = DetWith(Never, Never, FALSE, FALSE)
    /\ \E v \in RouteVariants, n \in RouteNames, m \in {"POST", "GET"} :
          route = RouteWith(v, n, m)
    /\ tab = TabWith("example", FALSE)
    /\ net = NetIdle
    /\ ext = ExtWith(Never)
    /\ pageOp = NoPageOp
SpecRoute == InitRoute /\ [][RouteNext]_vars

\* one scraper object, of either class, with or without an extension
\* configuration, running init() and close() once per attempt
InitTab ==
    /\ PoolInit /\ QueueInit /\ ExecIdle /\ HttpInit
    /\ chal = ChalWith("example", FALSE)
    /\ solver = SolverWith("manual", FALSE)
    /\ det = DetWith(Never, Never, FALSE, FALSE)
    /\ route = RouteWith("plain", "example", "GET")
    /\ \E sc \in TabScrapers, ec \in BOOLEAN :
          /\ ClassOf(sc) = "BaseScraper" => ~ec
          /\ tab = TabWith(sc, ec)
    /\ net = NetIdle
    /\ ext = ExtWith(Never)
    /\ pageOp = NoPageOp
SpecTab == InitTab /\ [][TabNext]_vars

\* a page whose request handler is installed and has seen no request yet
InitNet ==
    /\ PoolInit /\ QueueInit /\ ExecIdle /\ HttpInit
    /\ chal = ChalWith("example", FALSE)
    /\ solver = SolverWith("manual", FALSE)
    /\ det = DetWith(Never, Never, FALSE, FALSE)
    /\ route = RouteWith("plain", "example", "GET")
    /\ tab = TabWith("example", FALSE)
    /\ net = NetIdle
    /\ ext = ExtWith(Never)
    /\ pageOp = NoPageOp
SpecNet == InitNet /\ [][NetNext]_vars

\* a page of a browser launched with the extension, which defines its global
\* object in the first document after some delay, or never
InitExt ==
    /\ PoolInit /\ QueueInit /\ ExecIdle /\ HttpInit
    /\ chal = ChalWith("example", FALSE)
    /\ solver = SolverWith("manual", FALSE)
    /\ det = DetWith(Never, Never, FALSE, FALSE)
    /\ route = RouteWith("plain", "example", "GET")
    /\ tab = TabWith("example", FALSE)
    /\ net = NetIdle
    /\ \E d \in LoadDelays : ext = ExtWith(d)
    /\ pageOp = NoPageOp
SpecExt == InitExt /\ [][ExtNext]_vars

\* the smallest element of a non-empty set of numbers
SetMin(S) == CHOOSE x \in S : \A y \in S : x <= y

\* time passes for a queue whose callbacks run on time: nothing is runnable
\* (no due timer, no settled promise waiting for its awaiter), and the clock
\* moves to the next instant
QueueTickOnTime ==
    /\ recheckTimers # <<>> => Head(recheckTimers) > qNow
    /\ \A w \in Works : workState[w] \notin {"resolved", "rejected"}
    /\ QueueInstants # {}
    /\ qNow' = SetMin(QueueInstants)
    /\ UNCHANGED <<queue, processing, requestTimestamps, recheckTimers, workState, workKind,
                   nextWork, startLog>>

\* the queue under an event loop that is never kept busy by other code
QueueNextOnTime ==
    /\ \/ \E kind \in {"async", "syncThrow"} : Enqueue(kind)
       \/ \E w \in Works, ok \in BOOLEAN : WorkSettle(w, ok)
       \/ \E w \in Works : WorkContinue(w)
       \/ RecheckFire
       \/ Clear
       \/ QueueTickOnTime
    /\ UNCHANGED <<poolVars, execVars, httpVars, flowVars>>

\* its scheduling: whenever a timer callback is due, a settled promise has an
\* awaiter to resume, a started work can settle (the premise of the progress
\* property) or time can pass, one of these happens.  enqueue() and clear()
\* are calls of the environment and carry no fairness.
QueueProgress ==
    /\ \/ RecheckFire
       \/ QueueTickOnTime
       \/ \E w \in Works, ok \in BOOLEAN : WorkSettle(w, ok)
       \/ \E w \in Works : WorkContinue(w)
    /\ UNCHANGED <<poolVars, execVars, httpVars, flowVars>>
QueueFairness == WF_vars(QueueProgress)
SpecQueueFair == Init /\ [][QueueNextOnTime]_vars /\ QueueFairness

\* ------------------------------------------------------------------------
\* C1: the live set of the pool never holds more than maxInstances sessions
C1_PoolCap == Len(instances) <= maxInstances

\* C2: no session handle is held by two callers at once
C2_Exclusive ==
    \A c, d \in Callers : (c # d /\ held[c] # 0) => held[c] # held[d]

\* two callers hold sessions while a third acquire() is polling for one
C2_Witness ==
    /\ \E c, d \in Callers : c # d /\ held[c] # 0 /\ held[d] # 0
    /\ \E w \in waiters : ~w.settled /\ callerPc[w.caller] = "waiting"

\* ------------------------------------------------------------------------
\* the works whose execute() has been called and has not settled yet
RunningWorks == {w \in Works : workState[w] = "running"}

\* the number of starts logged in the half-open window (t - RateWindow, t]
StartsInWindow(t) ==
    Cardinality({i \in 1..Len(startLog) :
                    startLog[i].t > t - RateWindow /\ startLog[i].t <= t})

\* C3: the works that were started and have not completed are never more
\* than maxConcurrent
C3_ConcurrencyCap == Cardinality(RunningWorks) <= maxConcurrent

\* maxConcurrent works are running and a further item is held back in the queue
C3_Witness == Cardinality(RunningWorks) = maxConcurrent /\ queue # <<>>

\* C4: works start in the order of their enqueue: the start log is in
\* enqueue order, and whenever a work has started, every work enqueued
\* before it has started earlier or was removed by clear()
C4_Fifo ==
    /\ \A i, j \in 1..Len(startLog) : i < j => startLog[i].w < startLog[j].w
    /\ \A i \in 1..Len(startLog) : \A a \in 1..(startLog[i].w - 1) :
          workState[a] \notin {"new", "queued"}

\* two items that waited in the queue together were both started, after a
\* closed rate gate, while a later item still waits behind a re-check timer
C4_Witness ==
    /\ Len(startLog) >= 3
    /\ startLog[3].t > startLog[1].t
    /\ Len(queue) >= 1
    /\ recheckTimers # <<>>

\* C5: a work starts only while fewer than requestsPerMinute works started
\* in the preceding RateWindow ms, so every window (t - RateWindow, t] that
\* ends at a start contains at most requestsPerMinute starts
C5_RateLimit ==
    \A i \in 1..Len(startLog) : StartsInWindow(startLog[i].t) <= requestsPerMinute

\* requestsPerMinute + 1 works were started, the last of them once the
\* oldest start had left the window
C5_Witness ==
    /\ Len(startLog) > requestsPerMinute
    /\ startLog[requestsPerMinute + 1].t >= startLog[1].t + RateWindow

\* ------------------------------------------------------------------------
\* the browsers that were launched and neither closed nor killed
LiveBrowsers == {b \in Browsers : bState[b] = "live"}

\* C6: once execute() has returned, every browser its attempts launched has
\* been closed or killed and the scraper holds no browser or page handle
C6_TeardownOnReturn ==
    epc = "returned" => (LiveBrowsers = {} /\ browser = 0 /\ page = 0)

\* C7: a success after k failed attempts (k < maxRetries) reports retries = k,
\* and a failure of every attempt reports retries = the configured maxRetries
C7_RetriesReported ==
    epc = "returned" =>
       /\ (result.success /\ nFailed < cfgMaxRetries) => result.retries = nFailed
       /\ ~result.success => result.retries = cfgMaxRetries

\* C8: execute() starts at most (configured maxRetries) + 1 attempts
C8_AttemptBound == nStarted <= cfgMaxRetries + 1

\* C9: a pending execute() call always ends in a returned ScraperResult: it
\* is never cut off by an exception escaping to the runtime
C9_AlwaysStructured == procUp \/ epc \in {"idle", "returned"}

\* the time the claim allows execute() for a configured maxRetries of n:
\* (n + 1) hard timeouts, the backoff sleeps between them, and one bounded
\* teardown (page close + browser close) per attempt
ExecTimeBound(n) ==
    (n + 1) * 2 * timeout + retryDelay * ((n * (n + 1)) \div 2) + (n + 1) * 2 * CloseBound

\* C10: execute() returns within (maxRetries + 1) x 2 x timeout plus the
\* backoff sleeps and the bounded teardown time
C10_BoundedTime ==
    epc = "returned" => result.duration <= ExecTimeBound(cfgMaxRetries)

\* ------------------------------------------------------------------------
\* the requests whose scrape has started and has not returned yet
ScrapesInFlight == {r \in Requests : httpPc[r] \in {"launching", "scraping"}}

\* the requests whose scrape holds a launched browser
ScrapesWithBrowser == {r \in Requests : httpPc[r] = "scraping"}

\* C11: the scrapes in flight never exceed maxConcurrent and each of them is
\* counted by the queue; the browsers they hold never exceed maxInstances and
\* each of them is a session of the pool
C11_AdmittedAndPooled ==
    /\ Cardinality(ScrapesInFlight) <= maxConcurrent
    /\ Cardinality(ScrapesInFlight) <= processing
    /\ Cardinality(ScrapesWithBrowser) <= maxInstances
    /\ Cardinality(ScrapesWithBrowser) <= Len(instances)

\* ------------------------------------------------------------------------
\* the rate window is exhausted and the clock of the model has no later
\* instant at which it would reopen
QueueHorizon == QueueInstants = {} /\ ~CanMakeRequest(requestTimestamps, qNow).ok

\* C12: again and again the queue is empty, that is every item enqueued so far
\* has been started or removed by clear(): no item stays pending forever, as
\* long as the rate window can still reopen
C12_EventuallyStarted == []<>(queue = <<>> \/ QueueHorizon)

\* the third item was started when the window reopened, while a re-check
\* timer armed by a closed-gate check during its wait is still pending
C12_Witness ==
    /\ Len(startLog) >= 3
    /\ startLog[3].t >= RateWindow
    /\ recheckTimers # <<>>
    /\ Head(recheckTimers) <= startLog[3].t

\* ------------------------------------------------------------------------
\* the works that are in the queue
Pending == {queue[i] : i \in 1..Len(queue)}

\* C13: a step that empties the queue without starting anything (clear())
\* rejects exactly the pending items with 'Queue cleared' and keeps the
\* in-flight count and the state of every other work; a work that has been
\* started is never rejected with 'Queue cleared'; and at all times every
\* caller that is still waiting has its item in the queue
C13_ClearRejectsPending ==
    /\ [](\A w \in Works : workState[w] = "queued" => w \in Pending)
    /\ [][/\ (queue # <<>> /\ queue' = <<>> /\ startLog' = startLog) =>
              /\ processing' = processing
              /\ \A w \in Works :
                    workState'[w] = IF w \in Pending THEN "cleared" ELSE workState[w]
          /\ \A w \in Works :
                workState'[w] = "cleared" => workState[w] \in {"queued", "cleared"}]_vars

\* clear() has rejected a pending item while a work enqueued before it was
\* running; that work is still running and counted afterwards
C13_Witness ==
    \E w, v \in Works :
        /\ v < w
        /\ workState[w] = "cleared"
        /\ workState[v] = "running"
        /\ processing >= 1

\* ------------------------------------------------------------------------
\* C14: for every launched browser, all the close() calls made on the scraper
\* together call page.close() on its page at most once and browser.close() on
\* it at most once
C14_CloseOnce ==
    \A b \in Browsers : closeCalls.page[b] <= 1 /\ closeCalls.browser[b] <= 1

\* the close() of the catch block is closing the browser of attempt 0, and the
\* close() of that attempt's finally block, called meanwhile, has returned
\* without doing anything
C14_Witness ==
    /\ closeCo.pc = "browser"
    /\ closeCo.caller = CatchCaller
    /\ closeCalls.page[BrowserOf(0)] = 1
    /\ closeCalls.browser[BrowserOf(0)] = 1
    /\ att[0].pc \in {"resolved", "rejected"}

\* ------------------------------------------------------------------------
\* C15: the close sequence never lasts longer than its two 5 s bounds, and
\* when it returns, the browser the scraper held when close() was called is
\* terminated (closed gracefully, or killed)
C15_CloseTerminates ==
    /\ closeCo.pc \in {"page", "browser"} => now <= closeCo.since + 2 * CloseBound
    /\ (closeCo.pc = "done" /\ closeCo.session # 0) => bState[closeCo.session] # "live"

\* ------------------------------------------------------------------------
\* C16: whenever the safety timer armed by init() of an attempt fires (it was
\* not cleared, so no teardown has run since), the browser of that attempt
\* is not alive afterwards
C16_SafetyKill ==
    [][\A a \in Attempts : SafetyTimerFire(a) => bState'[BrowserOf(a)] # "live"]_vars

\* ------------------------------------------------------------------------
\* C17: a launch that fails or outlasts the 30 s launch bound never takes the
\* process down: no uncaught exception occurs, and an attempt that is still
\* launching is within its bound
C17_LaunchFailureHandled ==
    /\ procUp
    /\ \A a \in Attempts :
          att[a].pc = "launch" =>
             \E t \in timers : t.kind = "launch" /\ t.a = a /\ now <= t.due

C19_IdleSwept ==
    /\ [](sweepJobs = <<>> =>
            \A i \in 1..Len(instances) :
               ~(/\ ~instances[i].inUse
                 /\ instances[i].lastUsed + maxIdleTime < sweepDue - SweepInterval))
    /\ [][Len(sweepJobs') > Len(sweepJobs) =>
            LET toRemove == sweepJobs'[Len(sweepJobs')] IN
              \A k \in 1..Len(toRemove) :
                 \E i \in 1..Len(instances) :
                    /\ instances[i].browser = toRemove[k]
                    /\ ~instances[i].inUse
                    /\ poolNow - instances[i].lastUsed > maxIdleTime]_vars

\* ------------------------------------------------------------------------
\* C20: a caller is in the wait path of acquire() only while its 30 s
\* timeout has not expired; it leaves the wait path either holding a session
\* that was idle at that moment, or rejected (pool timeout) exactly when the
\* 30 s have expired
C20_BoundedWait ==
    /\ [](\A c \in Callers :
            callerPc[c] = "waiting" =>
               \E w \in waiters :
                  w.caller = c /\ ~w.settled /\ poolNow <= w.since + PoolWaitTimeout)
    /\ [][\A c \in Callers :
            (callerPc[c] = "waiting" /\ callerPc'[c] # "waiting") =>
               \/ /\ callerPc'[c] = "holding"
                  /\ \E i \in 1..Len(instances) :
                        instances[i].browser = held'[c] /\ ~instances[i].inUse
               \/ /\ callerPc'[c] = "idle"
                  /\ held'[c] = 0
                  /\ \E w \in waiters :
                        /\ w.caller = c /\ ~w.settled
                        /\ poolNow = w.since + PoolWaitTimeout]_vars

\* a waiting acquire() has been rejected at its deadline, the pool being full
\* and every session busy
C20_Witness ==
    /\ \E w \in waiters :
          w.settled /\ poolNow = w.deadline /\ callerPc[w.caller] = "idle"
    /\ Len(instances) >= maxInstances
    /\ \A i \in 1..Len(instances) : instances[i].inUse

\* ------------------------------------------------------------------------
\* C21: when a release(browser) call completes, the session of that browser is
\* idle, its lastUsed is the time of the release, and its browser has exactly
\* one open page
ReleaseCompletes(c) ==
    /\ callerPc[c] \in {"releasing", "closingPages"}
    /\ callerPc'[c] = "idle"

C21_ReleaseLeavesOnePage ==
    [][\A c \in Callers :
         ReleaseCompletes(c) =>
            LET b == relJob[c].browser IN
              /\ \E i \in 1..Len(instances') :
                    /\ instances'[i].browser = b
                    /\ ~instances'[i].inUse
                    /\ instances'[i].lastUsed = relJob[c].at
              /\ Len(pages'[b]) = 1]_vars

\* ------------------------------------------------------------------------
\* C22: when destroy() has completed, the live set is empty and every browser
\* that was launched into the pool has been closed
C22_DestroyClosesAll ==
    destroyCo.pc = "done" =>
        /\ instances = <<>>
        /\ \A b \in 1..nextBrowser : b \in closedBrowsers

\* ------------------------------------------------------------------------
\* C23: once a second challenge iframe has appeared after the checkbox solve,
\* the form is submitted only after the second challenge has cleared, a
\* returned result says solved only if it cleared within 18 polls of 5 s, and
\* says not solved when the 18 polls ran out
C23_SecondChallengeGates ==
    chal.reloaded =>
        /\ (chal.pc = "submitting" \/ chal.submitted) => chal.token
        /\ (chal.outcome = "returned" /\ chal.solved) =>
               (chal.token /\ chal.now <= PollBudget * PollInterval)
        /\ (chal.outcome = "returned" /\ ~chal.token) => ~chal.solved

\* ------------------------------------------------------------------------
\* C24: with a challenge detected and no solving strategy configured, scrape()
\* never gets as far as its result: it throws, and it does so before any wait
C24_NoStrategyFails ==
    (chal.had /\ ~chal.strategy) =>
        /\ chal.pc \in {"start", "done"}
        /\ chal.pc = "done" => (chal.outcome = "thrown" /\ chal.now = 0)

\* ------------------------------------------------------------------------
\* C25: one waitAndSolve() call waits for at most the configured timeout plus
\* one poll interval, and a call that ends with the challenge unsolved ends
\* with a timeout error
SolverInterval == IF solver.provider = "manual" THEN ManualInterval ELSE ProviderInterval

\* 'Manual captcha solving timeout', '2Captcha timeout' / 'Anti-Captcha timeout'
TimeoutErrors == {"Manual captcha solving timeout", "provider timeout"}

C25_BoundedResolution ==
    /\ solver.now <= SolveTimeout + SolverInterval
    /\ (solver.pc = "done" /\ solver.outcome # "true" /\ solver.error \in TimeoutErrors) =>
            solver.outcome = "thrown"

\* ------------------------------------------------------------------------
\* C26: a poll of the provider that answers "not ready" is followed by the
\* next poll 5 s later (unless the time is up); one that answers with a token
\* ends the resolution with success; one that answers with any other status
\* ends the resolution as a failure
PollAnswered(r) ==
    /\ solver.pc = "polling"
    /\ solver'.polls = solver.polls + 1
    /\ solver'.lastResp = r

C26_PollOutcomes ==
    [][/\ PollAnswered("notReady") =>
            /\ solver'.now = solver.now + ProviderInterval
            /\ solver'.pc = "polling" \/ solver'.now - solver'.start >= SolveTimeout
       /\ PollAnswered("ready") => (solver'.pc = "done" /\ solver'.outcome = "true")
       /\ PollAnswered("error") => (solver'.pc = "done" /\ solver'.outcome # "true")]_vars

\* ------------------------------------------------------------------------
\* C27: detectRecaptcha() answers through the first of its three layers that
\* matches, in the order iframe wait (10 s), global object wait (5 s more),
\* DOM query; a page on which only the global object is defined and no iframe
\* is rendered is answered true through the second layer
IframeInTime == det.iframeAt # Never /\ det.iframeAt <= IframeWait
GlobalInTime == det.globalAt # Never /\ det.globalAt <= IframeWait + GlobalWait

C28_TimeoutsNested ==
    LET c == ConfigOf(chal.scraper) IN
      /\ c.timeout < c.solve
      /\ c.solve < HardTimeout(c)
      /\ HardTimeout(c) < TotalWallClock(c)

\* ------------------------------------------------------------------------
\* C29: a request for a registered scraper is never left waiting for more
\* than 60 s, and an answer that comes when the 60 s are over is a 504
C29_AnsweredWithin60s ==
    route.name \in Scrapers =>
        /\ route.pc = "waiting" => route.now - route.since <= RouteGuard
        /\ (route.pc = "answered" /\ route.now - route.since > RouteGuard) => route.status = 504

\* ------------------------------------------------------------------------
\* C30: when init() has completed, the browser it launched has exactly one
\* open page
C30_InitLeavesOnePage ==
    tab.pc = "ready" => tab.open = 1

\* ------------------------------------------------------------------------
\* C31: the handler aborts a request exactly when its resource type is
\* image, stylesheet, font or media and its URL is not one of the CAPTCHA
\* vendor's (it includes 'recaptcha' or 'gstatic.com')
AllowListed(url) == Includes(url, "recaptcha") \/ Includes(url, "gstatic.com")
C31_AbortsHeavyUnlessAllowListed ==
    net.verdict \in {"abort", "continue"} =>
        (net.verdict = "abort" <=> (net.type \in HeavyTypes /\ ~AllowListed(net.url)))

\* ------------------------------------------------------------------------
\* C32: a detect or solve called while the extension's object is undefined
\* answers false without throwing, and only after the object stayed
\* undefined for the whole bounded wait
C32_WaitsBeforeUnavailable ==
    (ext.op # "none" /\ ext.unavailable) =>
        /\ ~ext.result /\ ~ext.threw
        /\ ext.answeredAt - ext.calledAt <= ExtWait
        /\ ~ExtDefined(ext, ext.calledAt + ExtWait)

\* ------------------------------------------------------------------------
\* C33: when a close() sequence ends while the scraper holds the browser of
\* a later attempt than the one the sequence was started for, that browser
\* stays alive and both handles stay set
TeardownEnds == closeCo.pc \in {"page", "browser"} /\ closeCo'.pc = "done"
HoldsLaterSession == browser # 0 /\ browser # closeCo.session
C33_TeardownSparesNextAttempt ==
    [][(TeardownEnds /\ HoldsLaterSession) =>
          /\ browser' = browser /\ page' = page
          /\ bState'[browser] = bState[browser]]_vars

\* ------------------------------------------------------------------------
\* C34: every session marked busy is held by a caller that received its
\* handle from acquire() (a waiter whose acquire() was rejected with the
\* pool timeout marks none)
C34_BusyIsHeld ==
    \A i \in 1..Len(instances) :
        instances[i].inUse => \E c \in Callers : held[c] = instances[i].browser

\* ------------------------------------------------------------------------
\* C35: no browser is at once held by a caller and closed, or being closed,
\* by the idle sweep
SweepClosing == {Head(sweepJobs[j]) : j \in 1..Len(sweepJobs)}
C35_HeldNotSwept ==
    \A c \in Callers :
        held[c] # 0 => held[c] \notin (closedBrowsers \cup SweepClosing)

\* ------------------------------------------------------------------------
\* C36: every operation a scrape() call makes on the scraper's page is made
\* on the page of its own attempt, never on the page of a later attempt
C36_ScrapeOnOwnPage ==
    pageOp # NoPageOp => pageOp.page = BrowserOf(pageOp.a)

\* ------------------------------------------------------------------------
\* C37: when the scrape() of the attempt execute() is waiting for has returned
\* a value (so before the hard timeout of that attempt fired), execute()
\* keeps waiting for that attempt or returns it as the successful result; it
\* does not fail it and start a retry
ValueInTime == epc = "racing" /\ att[attempt].outcome = "value"
C37_ValueMeansSuccess ==
    [][ValueInTime =>
          \/ epc' = "racing" /\ attempt' = attempt
          \/ epc' = "returned" /\ result'.success /\ result'.retries = attempt]_vars

\* ------------------------------------------------------------------------
\* C38: every page the cleanup of a release() call closes is a page that
\* the releasing caller opened, never a page of a caller that acquired the
\* session after it was marked idle
ReleaseCloses(c) ==
    /\ callerPc[c] = "closingPages"
    /\ pages'[relJob[c].browser] # pages[relJob[c].browser]
C38_ReleaseClosesOwnPages ==
    [][\A c \in Callers : ReleaseCloses(c) => Head(relJob[c].todo) = c]_vars

\* ------------------------------------------------------------------------
\* C39: one waitAndSolve() call with a remote provider submits at most one
\* task to the provider
C39_OneTaskPerResolution ==
    solver.provider # "manual" => solver.tasks <= 1

\* ------------------------------------------------------------------------
\* C40: a manual resolution ends with success only when the response field
\* was read non-empty or a detection found no challenge in the page; never
\* after a detection that ended in an error
C40_ManualSuccessIsReal ==
    (solver.provider = "manual" /\ solver.pc = "done" /\ solver.outcome = "true") =>
        (solver.token \/ solver.detected = "absent")

====
